---- MODULE Spec2Model ----
(***************************************************************************)
(* Model of the concurrent sensor-aggregation pipeline of src/src/main.py: *)
(* the main thread, the three Sampling Workers (MUX_SHTS, BME_GP2Y,        *)
(* MHZ19B), the Publisher, the two locks (i2c_lock, state_lock) and the    *)
(* Shared Latest State (latest).                                           *)
(*                                                                         *)
(* A thread's pc names the statement it executes next.  A pc ending in     *)
(* _lock is a blocking acquire of i2c_lock, one ending in _bus is a        *)
(* transaction on the I2C bus, one ending in _state is a blocking acquire  *)
(* of state_lock and one ending in _store is the access to latest that     *)
(* follows it.  The release at the end of a with-block is part of the      *)
(* step that executes the block's last statement.                          *)
(*                                                                         *)
(* Values are integers: temperatures, humidities, pressures and dust       *)
(* concentrations are held in hundredths of their unit, raw driver values  *)
(* in thousandths.                                                         *)
(*                                                                         *)
(* The specifications:                                                     *)
(*   Spec       the threads statement by statement, with their locks and   *)
(*              the faults of the sensors, the bus and the broker;         *)
(*   SpecStall  Spec with workers that hang in a blocking call;            *)
(*   SpecMhz    the MH-Z19B worker with more faults, workers A and B not   *)
(*              scheduled;                                                 *)
(*   SpecPub    the Publisher tick by tick, with its Window Buffer and     *)
(*              publish cycle, against workers that install entries;       *)
(*   SpecWin    _push and _prune_now on one window, in any order;          *)
(*   SpecPush   _push called with any key, slot, timestamp and value;      *)
(*   SpecAgg    the aggregation functions and the payload on given windows;*)
(*   SpecSend   SpecPub with the publish calls of a publish one by one;    *)
(*   SpecEntry  Spec without faults, worker C not scheduled, and more      *)
(*              different readings;                                        *)
(*   SpecWait   MH_Z19B.init and its startup wait, statement by statement  *)
(*              (SpecWaitFair: with the thread scheduled fairly);          *)
(*   SpecShtc3  SHTC3.read_single_sensor command by command;               *)
(*   SpecDep    the publish cycle of two runs side by side, their readings *)
(*              free to differ.                                            *)
(* Variables named `history` record what happened; no step reads them.     *)
(***************************************************************************)
EXTENDS Integers, Sequences, FiniteSets, TLC

\* ---------------------------------------------------------------- bounds
\* Number of distinct samples a sensor can deliver.
MaxReading == 1
\* Number of faults in one run: a read, an initialisation or a connect that
\* could have succeeded and raised (or, for the MH-Z19B, gave no valid frame).
MaxFailures == 1

\* The last second of the clock in the runs of the publish cycle.
MaxClock == 31
\* Number of entries the workers install in latest in a run of the publish
\* cycle.
MaxUpdates == 2
\* Largest timestamp and number of pushes in the runs of the window
\* operations.
MaxTs == 2
MaxPushes == 3
\* Number of faults in the runs of the MH-Z19B worker.
MaxMhzFaults == 2
\* Longest list of the four co2 values handed to the aggregation functions.
MaxMedianLen == 4
\* Longest list of the three pm25 values handed to the aggregation functions.
MaxTrimLen == 10
\* Number of different readings in the runs that follow the entries of
\* latest.
MaxEntryReading == 2
\* The last second of the clock in the two runs side by side.
MaxDepClock == 12
\* The last half second of time.time() in the runs of the MH-Z19B startup
\* wait.
MaxWall == 24

\* ------------------------------------------------------------- constants
\* main.py:65-67; TRIM_FRAC in percent.
BUF_WINDOW_S == 10
TRIM_FRAC == 10
MIN_SAMPLES_FOR_TRIM == 5
\* MH_Z19B.py:106  timeout=10, in half seconds (MH_Z19B.py:90 sleeps 0.5).
WAIT_TIMEOUT == 20
\* MH_Z19B.py:105  serial.Serial(..., timeout=1): the longest ser.read(9), in
\* half seconds.
SER_TIMEOUT == 2
\* A variant of MIN_REQUIRED in which one sample is enough for every metric.
MinRequiredOne == [slot |-> 1, co2 |-> 1, pm25 |-> 1, pres |-> 1]
\* A variant of MIN_REQUIRED in which two samples are enough for pm25 as they
\* are for the other metrics.
MinRequiredTwo == [slot |-> 2, co2 |-> 2, pm25 |-> 2, pres |-> 2]
\* main.py:69-74
MIN_REQUIRED == [slot |-> 2, co2 |-> 2, pm25 |-> 5, pres |-> 2]

\* Python's None.  Every value that may be None is a record otherwise.
None == <<>>
Free == "free"

\* Thread names (main.py:362-367) and the main thread.
Threads == {"MAIN", "MUX_SHTS", "BME_GP2Y", "MHZ19B", "PUBLISHER"}
Workers == {"MUX_SHTS", "BME_GP2Y", "MHZ19B"}

\* SHTC3.py:26, as a sequence (the worker visits the channels in order).
TARGET_CHANNELS == <<2, 3, 4, 5>>
Channels == {TARGET_CHANNELS[i] : i \in 1..Len(TARGET_CHANNELS)}


\* main.py:258  ch_to_slot = {2: 0, 3: 1, 4: 2, 5: 3}, in iteration order.
ChToSlot == <<[ch |-> 2, slot |-> 0], [ch |-> 3, slot |-> 1],
              [ch |-> 4, slot |-> 2], [ch |-> 5, slot |-> 3]>>
Slots == 0..3

\* Python's round(): x (an integer count of units) to the nearest multiple of
\* step units, ties to the even multiple; the result counts multiples.
RoundHalfEven(x, step) ==
    LET q == x \div step
        r == x % step
    IN  IF 2 * r < step THEN q
        ELSE IF 2 * r > step THEN q + 1
        ELSE IF q % 2 = 0 THEN q ELSE q + 1

\* What the adapters deliver for sample k.  SHT41.read_sht41 and
\* SHTC3.read_single_sensor return (temperature, humidity) rounded to one
\* decimal; here in hundredths.
ShtRead(k) == [t |-> 2000 + 10 * k, h |-> 4000 + 10 * k]
\* The BME280 driver's properties, raw, in thousandths.
BmeRaw(k) == [temp |-> 20000 + 15 * k, hum |-> 40000 + 15 * k,
              pres |-> 1000000 + 15 * k, alt |-> 26000 + 15 * k]
\* GP2Y1010AU0F.read_dust returns (avg_v, density_ug), raw: avg_v in
\* microvolts, density_ug in thousandths.
DustRead(k) == [vout |-> 7800 + 15 * k, ug |-> 10000 + 1015 * k]
\* A valid MH-Z19B frame decodes to (co2, temp).
FrameRead(k) == [co2 |-> 400 + 20 * k, temp |-> 25]

\* A value that is present: the Python value x where None is possible too.
Some(x) == [val |-> x]

\* main.py:75-84  the Window Buffer with every deque empty.
EmptyBuf == [temp_slots |-> [i \in Slots |-> <<>>],
             rh_slots |-> [i \in Slots |-> <<>>],
             bme_temp |-> <<>>, bme_rh |-> <<>>, bme_pres |-> <<>>,
             co2 |-> <<>>, pm25 |-> <<>>]

\* ------------------------------------------------------------- variables
VARIABLES
    pc,                 \* thread -> the statement it executes next
    i2c_lock,           \* holder of the Bus Access Guard, or Free
    state_lock,         \* holder of the state lock, or Free
    stop_event,         \* the shared shutdown flag
    latest,             \* Shared Latest State
    res,                \* worker -> result of its last read (local t, h / vout, ug / co2, temp)
    ch_i,               \* index into TARGET_CHANNELS of worker_mux_shts' for loop
    bme,                \* worker_bme_gp2y's local _bme: None or the driver
    ser,                \* worker_mhz's local ser: None or the open port
    last_valid_result,  \* MH_Z19B.last_valid_result
    smbus,              \* main's _smbus handle: "unopened", "open", "closed"
    snap,               \* the Publisher's local snap (a shallow copy of latest)
    s3_i,               \* position of the Publisher's loop over ch_to_slot
    clock,              \* time.monotonic(), in whole seconds
    now,                \* the Publisher's local now
    t0,                 \* the Publisher's local t0 (time of the last publish)
    first_window_start, \* the Publisher's local first_window_start
    buf,                \* the Window Buffer
    published,          \* the payloads handed to the Messaging Client, in order
    given,              \* the list handed to the aggregation functions
    aggr,               \* what the aggregation functions returned for given
    readings,           \* the number of different readings the sensors deliver
    topic_i,            \* position of the Publisher's loop over TOPICS_PUB
    attempts,           \* history: the publish calls of the last publish, in order
    wall,               \* time.time(), in half seconds
    start_time,         \* wait_for_sensor_response's local start_time
    cmds,               \* history: the commands read_single_sensor sent, in order
    run2,               \* a second run of workers and Publisher, side by side
    pubTimes,           \* history: the Publisher's now at each publish, in order
    pushed,             \* history: every (ts, value) pair _push appended to co2
    lastWrite,          \* history: metric -> time its worker last installed a reading
    attempt,            \* history: identifier -> outcome of its last read attempt
    last_good,          \* history: the last valid frame read from the MH-Z19B
    stalled,            \* the threads that hang in a blocking call for good
    budget              \* the faults the run may still see

\* The Publisher's cycle state and the clock it reads.
cyc == <<clock, now, t0, first_window_start, buf, published, pubTimes, pushed,
         lastWrite>>

agg == <<given, aggr>>
out == <<topic_i, attempts>>

\* The state of the sensor drivers' calls.
drv == <<wall, start_time, cmds>>

vars == <<pc, i2c_lock, state_lock, stop_event, latest, res, ch_i, bme, ser,
          last_valid_result, smbus, snap, s3_i, cyc, agg, out, drv, run2,
          readings, attempt, last_good, stalled, budget>>

\* The readings the sensors deliver in this run, by number.
Samples == 1..readings

\* The process runs: threads take steps only while it does.
Alive == pc["MAIN"] \in {"running", "join"}

\* Thread t is scheduled: the process runs and t does not hang.
Runs(t) == Alive /\ t \notin stalled

Goto(t, l) == pc' = [pc EXCEPT ![t] = l]

\* ------------------------------------------------------------------ Init
\* main.py:49-84 and the locals of the threads.  The threads stand at pcs;
\* faults is the number of faults the run may see.
InitFull(pcs, faults, r) ==
    /\ pc = pcs
    /\ readings = r
    /\ i2c_lock = Free
    /\ state_lock = Free
    /\ stop_event = FALSE
    /\ latest = [timestamp |-> None, bme280 |-> None, sht41 |-> None,
                 shtc3 |-> [c \in Channels |-> None], gp2y |-> None,
                 mhz19b |-> None]
    /\ res = [w \in Workers |-> None]
    /\ ch_i = 1
    /\ bme = None
    /\ ser = None
    /\ last_valid_result = None
    /\ smbus = "unopened"
    /\ snap = None
    /\ s3_i = 1
    /\ clock = 0
    /\ now = 0
    /\ t0 = 0
    /\ first_window_start = None
    /\ buf = EmptyBuf
    /\ published = <<>>
    /\ pubTimes = <<>>
    /\ topic_i = 1
    /\ attempts = <<>>
    /\ wall = 0
    /\ start_time = 0
    /\ cmds = <<>>
    /\ run2 = [latest |-> [timestamp |-> None, bme280 |-> None, sht41 |-> None,
                           shtc3 |-> [c \in Channels |-> None], gp2y |-> None,
                           mhz19b |-> None],
               buf |-> EmptyBuf, first_window_start |-> None, t0 |-> 0,
               published |-> <<>>, differs |-> {}]
    /\ given = <<>>
    /\ aggr = None
    /\ pushed = <<>>
    /\ lastWrite = [slot |-> [i \in Slots |-> 0], pres |-> 0, pm25 |-> 0]
    /\ attempt = [sht41 |-> "none", shtc3 |-> [c \in Channels |-> "none"],
                  bme280 |-> "none", gp2y |-> "none", mhz19b |-> "none"]
    /\ last_good = None
    /\ stalled = {}
    /\ budget = faults

\* The initial state with MaxReading different readings.
InitWith(pcs, faults) == InitFull(pcs, faults, MaxReading)

\* The state in which the interpreter reaches main.py:360.
Init ==
    InitWith([t \in Threads |-> IF t = "MAIN" THEN "open_smbus" ELSE "unstarted"],
             MaxFailures)

\* A variant of ExitGuard that keeps the guard past the end of the block, as
\* a worker would that took state_lock inside its `with i2c_lock:` block.
ExitGuardKept(t) == i2c_lock

\* Leaving a `with i2c_lock:` block, by its end or by a raise: the holder
\* releases the guard (main.py:133-135, 145-147, 165-168, 176-180, 194-195).
ExitGuard(t) == IF i2c_lock = t THEN Free ELSE i2c_lock

\* ---------------------------------------------------------- main thread
\* The local result of a read that raised.
Raised == [raised |-> TRUE]
\* An open handle.
Handle(name) == [handle |-> name]

\* main.py:360  _smbus = SMBus(1), outside any try: an OSError ends the process.
MainOpenSMBus ==
    /\ pc["MAIN"] = "open_smbus"
    /\ \/ smbus' = "open" /\ Goto("MAIN", "start_threads")
       \/ smbus' = smbus /\ Goto("MAIN", "crashed")
    /\ UNCHANGED <<drv, run2, readings, out, agg, i2c_lock, state_lock, stop_event, latest, res, ch_i, bme,
                   ser, last_valid_result, snap, s3_i, cyc, attempt, last_good, stalled, budget>>

\* main.py:369-374  start the four daemon threads, then idle.
MainStart ==
    /\ pc["MAIN"] = "start_threads"
    /\ pc' = [MAIN |-> "running", MUX_SHTS |-> "loop", BME_GP2Y |-> "check_chip",
              MHZ19B |-> "mhz_init", PUBLISHER |-> "connect"]
    /\ UNCHANGED <<drv, run2, readings, out, agg, i2c_lock, state_lock, stop_event, latest, res, ch_i, bme,
                   ser, last_valid_result, smbus, snap, s3_i, cyc, attempt, last_good, stalled, budget>>

\* main.py:375-377  KeyboardInterrupt: request shutdown, then join.
MainInterrupt ==
    /\ pc["MAIN"] = "running"
    /\ stop_event' = TRUE
    /\ Goto("MAIN", "join")
    /\ UNCHANGED <<drv, run2, readings, out, agg, i2c_lock, state_lock, latest, res, ch_i, bme, ser,
                   last_valid_result, smbus, snap, s3_i, cyc, attempt, last_good, stalled, budget>>

\* main.py:378-381  t.join(timeout=2.0) for every thread (each join returns
\* when the thread has ended or after 2 s, whichever is first), then
\* _smbus.close(); the process exits and its daemon threads end with it.
MainClose ==
    /\ pc["MAIN"] = "join"
    /\ smbus' = "closed"
    /\ Goto("MAIN", "exit")
    /\ UNCHANGED <<drv, run2, readings, out, agg, i2c_lock, state_lock, stop_event, latest, res, ch_i, bme,
                   ser, last_valid_result, snap, s3_i, cyc, attempt, last_good, stalled, budget>>

\* ------------------------------------------- Worker A: SHT41 + SHTC3
\* main.py:131  while not stop_event.is_set(), on entry
MuxLoop ==
    /\ Runs("MUX_SHTS") /\ pc["MUX_SHTS"] = "loop"
    /\ Goto("MUX_SHTS", IF stop_event THEN "done" ELSE "sht41_lock")
    /\ UNCHANGED <<drv, run2, readings, out, agg, i2c_lock, state_lock, stop_event, latest, res, ch_i, bme,
                   ser, last_valid_result, smbus, snap, s3_i, cyc, attempt, last_good, stalled, budget>>

\* main.py:133  with i2c_lock: (blocking acquire)
MuxSht41Lock ==
    /\ Runs("MUX_SHTS") /\ pc["MUX_SHTS"] = "sht41_lock"
    /\ i2c_lock = Free
    /\ i2c_lock' = "MUX_SHTS"
    /\ Goto("MUX_SHTS", "sht41_bus")
    /\ UNCHANGED <<drv, run2, readings, out, agg, state_lock, stop_event, latest, res, ch_i, bme, ser,
                   last_valid_result, smbus, snap, s3_i, cyc, attempt, last_good, stalled, budget>>

\* main.py:134-135  select_channel + read_sht41 on _smbus; the with-block
\* releases i2c_lock whether the read returns or raises.
MuxSht41Bus ==
    /\ Runs("MUX_SHTS") /\ pc["MUX_SHTS"] = "sht41_bus"
    /\ \/ /\ \E k \in Samples : res' = [res EXCEPT !["MUX_SHTS"] = ShtRead(k)]
          /\ attempt' = [attempt EXCEPT !.sht41 = "ok"]
          /\ budget' = budget
       \/ /\ budget > 0
          /\ res' = [res EXCEPT !["MUX_SHTS"] = Raised]
          /\ attempt' = [attempt EXCEPT !.sht41 = "failed"]
          /\ budget' = budget - 1
    /\ i2c_lock' = ExitGuard("MUX_SHTS")
    /\ Goto("MUX_SHTS", "sht41_state")
    /\ UNCHANGED <<drv, run2, readings, out, agg, state_lock, stop_event, latest, ch_i, bme, ser,
                   last_valid_result, smbus, snap, s3_i, cyc, last_good, stalled>>

\* main.py:136 / 139  with state_lock:
MuxSht41State ==
    /\ Runs("MUX_SHTS") /\ pc["MUX_SHTS"] = "sht41_state"
    /\ state_lock = Free
    /\ state_lock' = "MUX_SHTS"
    /\ Goto("MUX_SHTS", "sht41_store")
    /\ UNCHANGED <<drv, run2, readings, out, agg, i2c_lock, stop_event, latest, res, ch_i, bme, ser,
                   last_valid_result, smbus, snap, s3_i, cyc, attempt, last_good, stalled, budget>>

\* The entry worker A installs for a read result (main.py:137, 140, 149, 152).
ShtEntry(r) == IF r = Raised THEN None ELSE [temp_c |-> r.t, rh |-> r.h]

\* A variant of MuxSht41Store that gives up the iteration after a failed
\* SHT41 read: the SHTC3 channels are skipped.
MuxSht41StoreSkip ==
    /\ Runs("MUX_SHTS") /\ pc["MUX_SHTS"] = "sht41_store"
    /\ latest' = [latest EXCEPT !.sht41 = ShtEntry(res["MUX_SHTS"])]
    /\ state_lock' = Free
    /\ res' = [res EXCEPT !["MUX_SHTS"] = None]
    /\ ch_i' = 1
    /\ Goto("MUX_SHTS", IF res["MUX_SHTS"] = Raised THEN "sleep"
                        ELSE "shtc3_lock")
    /\ UNCHANGED <<drv, run2, readings, out, agg, i2c_lock, stop_event, bme, ser, last_valid_result,
                   smbus, snap, s3_i, cyc, attempt, last_good, stalled, budget>>

\* main.py:137 / 140  latest["sht41"] = {...} or None; 143 starts the for loop.
MuxSht41Store ==
    /\ Runs("MUX_SHTS") /\ pc["MUX_SHTS"] = "sht41_store"
    /\ latest' = [latest EXCEPT !.sht41 = ShtEntry(res["MUX_SHTS"])]
    /\ state_lock' = Free
    /\ res' = [res EXCEPT !["MUX_SHTS"] = None]
    /\ ch_i' = 1
    /\ Goto("MUX_SHTS", "shtc3_lock")
    /\ UNCHANGED <<drv, run2, readings, out, agg, i2c_lock, stop_event, bme, ser, last_valid_result, smbus, snap, s3_i, cyc, attempt, last_good, stalled, budget>>

\* main.py:145  with i2c_lock:
MuxShtc3Lock ==
    /\ Runs("MUX_SHTS") /\ pc["MUX_SHTS"] = "shtc3_lock"
    /\ i2c_lock = Free
    /\ i2c_lock' = "MUX_SHTS"
    /\ Goto("MUX_SHTS", "shtc3_bus")
    /\ UNCHANGED <<drv, run2, readings, out, agg, state_lock, stop_event, latest, res, ch_i, bme, ser,
                   last_valid_result, smbus, snap, s3_i, cyc, attempt, last_good, stalled, budget>>

\* main.py:146-147  select_channel(ch) + read_single_sensor
MuxShtc3Bus ==
    /\ Runs("MUX_SHTS") /\ pc["MUX_SHTS"] = "shtc3_bus"
    /\ \/ /\ \E k \in Samples : res' = [res EXCEPT !["MUX_SHTS"] = ShtRead(k)]
          /\ attempt' = [attempt EXCEPT !.shtc3[TARGET_CHANNELS[ch_i]] = "ok"]
          /\ budget' = budget
       \/ /\ budget > 0
          /\ res' = [res EXCEPT !["MUX_SHTS"] = Raised]
          /\ attempt' = [attempt EXCEPT !.shtc3[TARGET_CHANNELS[ch_i]] = "failed"]
          /\ budget' = budget - 1
    /\ i2c_lock' = ExitGuard("MUX_SHTS")
    /\ Goto("MUX_SHTS", "shtc3_state")
    /\ UNCHANGED <<drv, run2, readings, out, agg, state_lock, stop_event, latest, ch_i, bme, ser,
                   last_valid_result, smbus, snap, s3_i, cyc, last_good, stalled>>

\* main.py:148 / 151  with state_lock:
MuxShtc3State ==
    /\ Runs("MUX_SHTS") /\ pc["MUX_SHTS"] = "shtc3_state"
    /\ state_lock = Free
    /\ state_lock' = "MUX_SHTS"
    /\ Goto("MUX_SHTS", "shtc3_store")
    /\ UNCHANGED <<drv, run2, readings, out, agg, i2c_lock, stop_event, latest, res, ch_i, bme, ser,
                   last_valid_result, smbus, snap, s3_i, cyc, attempt, last_good, stalled, budget>>

\* main.py:149 / 152  latest["shtc3"][ch] = {...} or None, then the next
\* channel of the for loop, or line 154 after the last.
MuxShtc3Store ==
    /\ Runs("MUX_SHTS") /\ pc["MUX_SHTS"] = "shtc3_store"
    /\ latest' = [latest EXCEPT !.shtc3[TARGET_CHANNELS[ch_i]] =
                                    ShtEntry(res["MUX_SHTS"])]
    /\ state_lock' = Free
    /\ res' = [res EXCEPT !["MUX_SHTS"] = None]
    /\ IF ch_i < Len(TARGET_CHANNELS)
         THEN ch_i' = ch_i + 1 /\ Goto("MUX_SHTS", "shtc3_lock")
         ELSE ch_i' = 1 /\ Goto("MUX_SHTS", "sleep")
    /\ UNCHANGED <<drv, run2, readings, out, agg, i2c_lock, stop_event, bme, ser, last_valid_result, smbus, snap, s3_i, cyc, attempt, last_good, stalled, budget>>

\* main.py:154, 131  time.sleep(period_s), then the loop test
MuxSleep ==
    /\ Runs("MUX_SHTS") /\ pc["MUX_SHTS"] = "sleep"
    /\ Goto("MUX_SHTS", IF stop_event THEN "done" ELSE "sht41_lock")
    /\ UNCHANGED <<drv, run2, readings, out, agg, i2c_lock, state_lock, stop_event, latest, res, ch_i, bme,
                   ser, last_valid_result, smbus, snap, s3_i, cyc, attempt, last_good, stalled, budget>>

WorkerA ==
    \/ MuxLoop \/ MuxSht41Lock \/ MuxSht41Bus \/ MuxSht41State \/ MuxSht41Store
    \/ MuxShtc3Lock \/ MuxShtc3Bus \/ MuxShtc3State \/ MuxShtc3Store \/ MuxSleep


\* ------------------------------------------- Worker B: BME280 + GP2Y
\* main.py:161-164  check_chip() opens its own SMBus(1) and reads the chip id
\* register; its verdict is only printed.  A raise here (the open, an import)
\* goes to the handler of lines 169-171.
BmeCheckChip ==
    /\ Runs("BME_GP2Y") /\ pc["BME_GP2Y"] = "check_chip"
    /\ \/ Goto("BME_GP2Y", "bme_init_lock") /\ bme' = bme /\ budget' = budget
       \/ budget > 0 /\ Goto("BME_GP2Y", "loop") /\ bme' = None
                     /\ budget' = budget - 1
    /\ UNCHANGED <<drv, run2, readings, out, agg, i2c_lock, state_lock, stop_event, latest, res, ch_i, ser,
                   last_valid_result, smbus, snap, s3_i, cyc, attempt, last_good, stalled>>

\* main.py:165  with i2c_lock:
BmeInitLock ==
    /\ Runs("BME_GP2Y") /\ pc["BME_GP2Y"] = "bme_init_lock"
    /\ i2c_lock = Free
    /\ i2c_lock' = "BME_GP2Y"
    /\ Goto("BME_GP2Y", "bme_init_bus")
    /\ UNCHANGED <<drv, run2, readings, out, agg, state_lock, stop_event, latest, res, ch_i, bme, ser,
                   last_valid_result, smbus, snap, s3_i, cyc, attempt, last_good, stalled, budget>>

\* main.py:166-171  open the driver and calibrate it; on a raise _bme = None.
BmeInitBus ==
    /\ Runs("BME_GP2Y") /\ pc["BME_GP2Y"] = "bme_init_bus"
    /\ \/ bme' = Handle("bme280") /\ budget' = budget
       \/ budget > 0 /\ bme' = None /\ budget' = budget - 1
    /\ i2c_lock' = ExitGuard("BME_GP2Y")
    /\ Goto("BME_GP2Y", "loop")
    /\ UNCHANGED <<drv, run2, readings, out, agg, state_lock, stop_event, latest, res, ch_i, ser,
                   last_valid_result, smbus, snap, s3_i, cyc, attempt, last_good, stalled>>

\* main.py:173-175  while not stop_event.is_set(): ... if _bme:, on entry
BmeLoop ==
    /\ Runs("BME_GP2Y") /\ pc["BME_GP2Y"] = "loop"
    /\ Goto("BME_GP2Y", IF stop_event THEN "done"
                        ELSE IF bme # None THEN "bme_lock" ELSE "gp2y_lock")
    /\ UNCHANGED <<drv, run2, readings, out, agg, i2c_lock, state_lock, stop_event, latest, res, ch_i, bme,
                   ser, last_valid_result, smbus, snap, s3_i, cyc, attempt, last_good, stalled, budget>>

\* A variant of BmeLock that enters the block without waiting for the guard.
BmeLockNoWait ==
    /\ Runs("BME_GP2Y") /\ pc["BME_GP2Y"] = "bme_lock"
    /\ i2c_lock' = "BME_GP2Y"
    /\ Goto("BME_GP2Y", "bme_bus")
    /\ UNCHANGED <<drv, run2, readings, out, agg, state_lock, stop_event, latest, res, ch_i, bme, ser,
                   last_valid_result, smbus, snap, s3_i, cyc, attempt,
                   last_good, stalled, budget>>

\* main.py:176  with i2c_lock:
BmeLock ==
    /\ Runs("BME_GP2Y") /\ pc["BME_GP2Y"] = "bme_lock"
    /\ i2c_lock = Free
    /\ i2c_lock' = "BME_GP2Y"
    /\ Goto("BME_GP2Y", "bme_bus")
    /\ UNCHANGED <<drv, run2, readings, out, agg, state_lock, stop_event, latest, res, ch_i, bme, ser,
                   last_valid_result, smbus, snap, s3_i, cyc, attempt, last_good, stalled, budget>>

\* A variant of BmeBus that releases the guard only when the reads return:
\* a raise leaves the block with the guard still held.
BmeBusLeak ==
    /\ Runs("BME_GP2Y") /\ pc["BME_GP2Y"] = "bme_bus"
    /\ \/ /\ \E k \in Samples : res' = [res EXCEPT !["BME_GP2Y"] = BmeRaw(k)]
          /\ attempt' = [attempt EXCEPT !.bme280 = "ok"]
          /\ budget' = budget
          /\ i2c_lock' = ExitGuard("BME_GP2Y")
       \/ /\ budget > 0
          /\ res' = [res EXCEPT !["BME_GP2Y"] = Raised]
          /\ attempt' = [attempt EXCEPT !.bme280 = "failed"]
          /\ budget' = budget - 1
          /\ i2c_lock' = i2c_lock
    /\ Goto("BME_GP2Y", "bme_state")
    /\ UNCHANGED <<drv, run2, readings, out, agg, state_lock, stop_event, latest, ch_i, bme, ser,
                   last_valid_result, smbus, snap, s3_i, cyc, last_good, stalled>>

\* main.py:177-180  the four driver reads
BmeBus ==
    /\ Runs("BME_GP2Y") /\ pc["BME_GP2Y"] = "bme_bus"
    /\ \/ /\ \E k \in Samples : res' = [res EXCEPT !["BME_GP2Y"] = BmeRaw(k)]
          /\ attempt' = [attempt EXCEPT !.bme280 = "ok"]
          /\ budget' = budget
       \/ /\ budget > 0
          /\ res' = [res EXCEPT !["BME_GP2Y"] = Raised]
          /\ attempt' = [attempt EXCEPT !.bme280 = "failed"]
          /\ budget' = budget - 1
    /\ i2c_lock' = ExitGuard("BME_GP2Y")
    /\ Goto("BME_GP2Y", "bme_state")
    /\ UNCHANGED <<drv, run2, readings, out, agg, state_lock, stop_event, latest, ch_i, bme, ser,
                   last_valid_result, smbus, snap, s3_i, cyc, last_good, stalled>>

\* main.py:181 / 189  with state_lock:
BmeState ==
    /\ Runs("BME_GP2Y") /\ pc["BME_GP2Y"] = "bme_state"
    /\ state_lock = Free
    /\ state_lock' = "BME_GP2Y"
    /\ Goto("BME_GP2Y", "bme_store")
    /\ UNCHANGED <<drv, run2, readings, out, agg, i2c_lock, stop_event, latest, res, ch_i, bme, ser,
                   last_valid_result, smbus, snap, s3_i, cyc, attempt, last_good, stalled, budget>>

\* A variant of BmeEntry that updates the entry in place when there is one:
\* temp_c is overwritten, the other fields stay.
BmeEntryInPlace(r) ==
    IF r = Raised THEN None
    ELSE IF latest.bme280 # None
      THEN [latest.bme280 EXCEPT !.temp_c = RoundHalfEven(r.temp, 10)]
    ELSE [temp_c |-> RoundHalfEven(r.temp, 10), rh |-> RoundHalfEven(r.hum, 10),
          press_hpa |-> RoundHalfEven(r.pres, 10),
          alt_m |-> RoundHalfEven(r.alt, 10)]

\* main.py:182-187, 190  the entry: every field rounded to 2 decimals.
BmeEntry(r) ==
    IF r = Raised THEN None
    ELSE [temp_c |-> RoundHalfEven(r.temp, 10), rh |-> RoundHalfEven(r.hum, 10),
          press_hpa |-> RoundHalfEven(r.pres, 10),
          alt_m |-> RoundHalfEven(r.alt, 10)]

\* main.py:182-187 / 190
BmeStore ==
    /\ Runs("BME_GP2Y") /\ pc["BME_GP2Y"] = "bme_store"
    /\ latest' = [latest EXCEPT !.bme280 = BmeEntry(res["BME_GP2Y"])]
    /\ state_lock' = Free
    /\ res' = [res EXCEPT !["BME_GP2Y"] = None]
    /\ Goto("BME_GP2Y", "gp2y_lock")
    /\ UNCHANGED <<drv, run2, readings, out, agg, i2c_lock, stop_event, ch_i, bme, ser, last_valid_result,
                   smbus, snap, s3_i, cyc, attempt, last_good, stalled, budget>>

\* main.py:194  with i2c_lock:
Gp2yLock ==
    /\ Runs("BME_GP2Y") /\ pc["BME_GP2Y"] = "gp2y_lock"
    /\ i2c_lock = Free
    /\ i2c_lock' = "BME_GP2Y"
    /\ Goto("BME_GP2Y", "gp2y_bus")
    /\ UNCHANGED <<drv, run2, readings, out, agg, state_lock, stop_event, latest, res, ch_i, bme, ser,
                   last_valid_result, smbus, snap, s3_i, cyc, attempt, last_good, stalled, budget>>

\* main.py:195  gp2y_mod.read_dust()
Gp2yBus ==
    /\ Runs("BME_GP2Y") /\ pc["BME_GP2Y"] = "gp2y_bus"
    /\ \/ /\ \E k \in Samples : res' = [res EXCEPT !["BME_GP2Y"] = DustRead(k)]
          /\ attempt' = [attempt EXCEPT !.gp2y = "ok"]
          /\ budget' = budget
       \/ /\ budget > 0
          /\ res' = [res EXCEPT !["BME_GP2Y"] = Raised]
          /\ attempt' = [attempt EXCEPT !.gp2y = "failed"]
          /\ budget' = budget - 1
    /\ i2c_lock' = ExitGuard("BME_GP2Y")
    /\ Goto("BME_GP2Y", "gp2y_state")
    /\ UNCHANGED <<drv, run2, readings, out, agg, state_lock, stop_event, latest, ch_i, bme, ser,
                   last_valid_result, smbus, snap, s3_i, cyc, last_good, stalled>>

\* main.py:196 / 199  with state_lock:
Gp2yState ==
    /\ Runs("BME_GP2Y") /\ pc["BME_GP2Y"] = "gp2y_state"
    /\ state_lock = Free
    /\ state_lock' = "BME_GP2Y"
    /\ Goto("BME_GP2Y", "gp2y_store")
    /\ UNCHANGED <<drv, run2, readings, out, agg, i2c_lock, stop_event, latest, res, ch_i, bme, ser,
                   last_valid_result, smbus, snap, s3_i, cyc, attempt, last_good, stalled, budget>>

\* A variant of Gp2yEntry for a handler that skips line 200: a failed read
\* leaves the previous entry in place.
Gp2yEntryStale(r) ==
    IF r = Raised THEN latest.gp2y
    ELSE [vout |-> RoundHalfEven(r.vout, 10),
          pm_ugm3 |-> 10 * RoundHalfEven(r.ug, 100)]

\* main.py:197, 200  vout rounded to 5 decimals (here tens of microvolts),
\* pm_ugm3 to 1 decimal (here hundredths, a multiple of 10).
Gp2yEntry(r) ==
    IF r = Raised THEN None
    ELSE [vout |-> RoundHalfEven(r.vout, 10),
          pm_ugm3 |-> 10 * RoundHalfEven(r.ug, 100)]

\* main.py:197 / 200
Gp2yStore ==
    /\ Runs("BME_GP2Y") /\ pc["BME_GP2Y"] = "gp2y_store"
    /\ latest' = [latest EXCEPT !.gp2y = Gp2yEntry(res["BME_GP2Y"])]
    /\ state_lock' = Free
    /\ res' = [res EXCEPT !["BME_GP2Y"] = None]
    /\ Goto("BME_GP2Y", "sleep")
    /\ UNCHANGED <<drv, run2, readings, out, agg, i2c_lock, stop_event, ch_i, bme, ser, last_valid_result,
                   smbus, snap, s3_i, cyc, attempt, last_good, stalled, budget>>

\* main.py:203, 173-175  time.sleep(period_s), then the loop test
BmeSleep ==
    /\ Runs("BME_GP2Y") /\ pc["BME_GP2Y"] = "sleep"
    /\ Goto("BME_GP2Y", IF stop_event THEN "done"
                        ELSE IF bme # None THEN "bme_lock" ELSE "gp2y_lock")
    /\ UNCHANGED <<drv, run2, readings, out, agg, i2c_lock, state_lock, stop_event, latest, res, ch_i, bme,
                   ser, last_valid_result, smbus, snap, s3_i, cyc, attempt, last_good, stalled, budget>>

WorkerB ==
    \/ BmeCheckChip \/ BmeInitLock \/ BmeInitBus \/ BmeLoop
    \/ BmeLock \/ BmeBus \/ BmeState \/ BmeStore
    \/ Gp2yLock \/ Gp2yBus \/ Gp2yState \/ Gp2yStore \/ BmeSleep

\* ------------------------------------------- Worker C: MH-Z19B (UART)
\* main.py:209-213 with MH_Z19B.init (95-111): open the port (a raise leaves
\* ser = None), wait for a first valid frame, and keep it in
\* last_valid_result if one came before the timeout.
MhzInit ==
    /\ Runs("MHZ19B") /\ pc["MHZ19B"] = "mhz_init"
    /\ \/ /\ budget > 0 /\ budget' = budget - 1
          /\ ser' = None
          /\ UNCHANGED <<drv, run2, last_valid_result, last_good>>
       \/ /\ budget > 0 /\ budget' = budget - 1
          /\ ser' = Handle("serial0")
          /\ UNCHANGED <<drv, run2, last_valid_result, last_good>>
       \/ /\ budget' = budget
          /\ ser' = Handle("serial0")
          /\ \E k \in Samples : /\ last_valid_result' = FrameRead(k)
                                /\ last_good' = FrameRead(k)
    /\ Goto("MHZ19B", "loop")
    /\ UNCHANGED <<drv, run2, readings, out, agg, i2c_lock, state_lock, stop_event, latest, res, ch_i, bme,
                   smbus, snap, s3_i, cyc, attempt, stalled>>

\* main.py:215  while not stop_event.is_set(), on entry
MhzLoop ==
    /\ Runs("MHZ19B") /\ pc["MHZ19B"] = "loop"
    /\ Goto("MHZ19B", IF stop_event THEN "done" ELSE "mhz_read")
    /\ UNCHANGED <<drv, run2, readings, out, agg, i2c_lock, state_lock, stop_event, latest, res, ch_i, bme,
                   ser, last_valid_result, smbus, snap, s3_i, cyc, attempt, last_good, stalled, budget>>

\* main.py:219-224  the (co2, temp) worker_mhz goes on with when read_mhz19
\* gave result (a frame, or None); None stands for co2, temp = None, None.
MhzPick(result, lvr) ==
    IF result # None THEN result
    ELSE IF lvr # None THEN lvr
    ELSE None

\* main.py:217-224  read_mhz19(ser) if ser else None (MH_Z19B.py:38-58: a
\* frame, None for an invalid or short one, or a raise of the port).
MhzRead ==
    /\ Runs("MHZ19B") /\ pc["MHZ19B"] = "mhz_read"
    /\ \/ /\ ser # None
          /\ \E k \in Samples :
                /\ res' = [res EXCEPT !["MHZ19B"] =
                                MhzPick(FrameRead(k), last_valid_result)]
                /\ last_good' = FrameRead(k)
          /\ attempt' = [attempt EXCEPT !.mhz19b = "ok"]
          /\ budget' = budget
       \/ /\ ser # None /\ budget > 0
          /\ res' = [res EXCEPT !["MHZ19B"] = MhzPick(None, last_valid_result)]
          /\ last_good' = last_good
          /\ attempt' = [attempt EXCEPT !.mhz19b = "invalid"]
          /\ budget' = budget - 1
       \/ /\ ser # None /\ budget > 0
          /\ res' = [res EXCEPT !["MHZ19B"] = Raised]
          /\ last_good' = last_good
          /\ attempt' = [attempt EXCEPT !.mhz19b = "failed"]
          /\ budget' = budget - 1
       \/ /\ ser = None
          /\ res' = [res EXCEPT !["MHZ19B"] = MhzPick(None, last_valid_result)]
          /\ UNCHANGED <<drv, run2, last_good, attempt>>
          /\ budget' = budget
    /\ Goto("MHZ19B", "mhz_state")
    /\ UNCHANGED <<drv, run2, readings, out, agg, i2c_lock, state_lock, stop_event, latest, ch_i, bme, ser,
                   last_valid_result, smbus, snap, s3_i, cyc, stalled>>

\* main.py:225 / 228  with state_lock:
MhzState ==
    /\ Runs("MHZ19B") /\ pc["MHZ19B"] = "mhz_state"
    /\ state_lock = Free
    /\ state_lock' = "MHZ19B"
    /\ Goto("MHZ19B", "mhz_store")
    /\ UNCHANGED <<drv, run2, readings, out, agg, i2c_lock, stop_event, latest, res, ch_i, bme, ser,
                   last_valid_result, smbus, snap, s3_i, cyc, attempt, last_good, stalled, budget>>

\* main.py:226, 229
MhzEntry(r) ==
    IF r = Raised THEN None
    ELSE IF r = None THEN None
    ELSE [co2 |-> r.co2, temp |-> r.temp]

\* main.py:226 / 229
MhzStore ==
    /\ Runs("MHZ19B") /\ pc["MHZ19B"] = "mhz_store"
    /\ latest' = [latest EXCEPT !.mhz19b = MhzEntry(res["MHZ19B"])]
    /\ state_lock' = Free
    /\ res' = [res EXCEPT !["MHZ19B"] = None]
    /\ Goto("MHZ19B", "sleep")
    /\ UNCHANGED <<drv, run2, readings, out, agg, i2c_lock, stop_event, ch_i, bme, ser, last_valid_result,
                   smbus, snap, s3_i, cyc, attempt, last_good, stalled, budget>>

\* main.py:232, 215  time.sleep(period_s), then the loop test
MhzSleep ==
    /\ Runs("MHZ19B") /\ pc["MHZ19B"] = "sleep"
    /\ Goto("MHZ19B", IF stop_event THEN "done" ELSE "mhz_read")
    /\ UNCHANGED <<drv, run2, readings, out, agg, i2c_lock, state_lock, stop_event, latest, res, ch_i, bme,
                   ser, last_valid_result, smbus, snap, s3_i, cyc, attempt, last_good, stalled, budget>>

WorkerC == MhzInit \/ MhzLoop \/ MhzRead \/ MhzState \/ MhzStore \/ MhzSleep


\* ------------------------------------------------------------ Publisher
\* main.py:238-244  connect to the broker; on a raise the function returns.
PubConnect ==
    /\ Runs("PUBLISHER") /\ pc["PUBLISHER"] = "connect"
    /\ \/ Goto("PUBLISHER", "loop") /\ budget' = budget
       \/ budget > 0 /\ Goto("PUBLISHER", "done") /\ budget' = budget - 1
    /\ UNCHANGED <<drv, run2, readings, out, agg, i2c_lock, state_lock, stop_event, latest, res, ch_i, bme,
                   ser, last_valid_result, smbus, snap, s3_i, cyc, attempt, last_good, stalled>>

\* main.py:249  while not stop_event.is_set(), on entry
PubLoop ==
    /\ Runs("PUBLISHER") /\ pc["PUBLISHER"] = "loop"
    /\ Goto("PUBLISHER", IF stop_event THEN "done" ELSE "snap_state")
    /\ UNCHANGED <<drv, run2, readings, out, agg, i2c_lock, state_lock, stop_event, latest, res, ch_i, bme,
                   ser, last_valid_result, smbus, snap, s3_i, cyc, attempt, last_good, stalled,
                   budget>>

\* main.py:252  with state_lock:
PubSnapState ==
    /\ Runs("PUBLISHER") /\ pc["PUBLISHER"] = "snap_state"
    /\ state_lock = Free
    /\ state_lock' = "PUBLISHER"
    /\ Goto("PUBLISHER", "snap_copy")
    /\ UNCHANGED <<drv, run2, readings, out, agg, i2c_lock, stop_event, latest, res, ch_i, bme, ser,
                   last_valid_result, smbus, snap, s3_i, cyc, attempt, last_good, stalled, budget>>

\* What dict(latest) holds under "shtc3": the mapping latest["shtc3"] itself,
\* not a copy of it.
SameDict == [alias |-> "latest.shtc3"]

\* main.py:253  snap = dict(latest), a shallow copy: the top-level entries are
\* copied, the nested shtc3 mapping is shared with latest.
ShallowCopy(l) == [l EXCEPT !.shtc3 = SameDict]

\* main.py:253-258.  Of the copy the thread steps keep what another thread can
\* still affect, the shared shtc3 mapping; the values the copy carries go
\* nowhere but into the Window Buffer, which PubTick follows.
PubSnapCopy ==
    /\ Runs("PUBLISHER") /\ pc["PUBLISHER"] = "snap_copy"
    /\ snap' = [shtc3 |-> ShallowCopy(latest).shtc3]
    /\ state_lock' = Free
    /\ s3_i' = 1
    /\ Goto("PUBLISHER", "read_shtc3")
    /\ UNCHANGED <<drv, run2, readings, out, agg, i2c_lock, stop_event, latest, res, ch_i, bme, ser,
                   last_valid_result, smbus, cyc, attempt, last_good, stalled, budget>>

\* main.py:259-263  e = s3.get(ch): s3 is latest["shtc3"], read as it is now,
\* with no lock held.
PubReadShtc3 ==
    /\ Runs("PUBLISHER") /\ pc["PUBLISHER"] = "read_shtc3"
    /\ IF s3_i < Len(ChToSlot)
         THEN s3_i' = s3_i + 1 /\ UNCHANGED pc
         ELSE s3_i' = 1 /\ Goto("PUBLISHER", "aggregate")
    /\ UNCHANGED <<drv, run2, readings, out, agg, i2c_lock, state_lock, stop_event, latest, res, ch_i, bme,
                   ser, last_valid_result, smbus, snap, cyc, attempt, last_good, stalled, budget>>

\* A variant of PubRest that clears the GP2Y entry of latest once it has
\* pushed it.
PubRestConsume ==
    /\ Runs("PUBLISHER") /\ pc["PUBLISHER"] = "aggregate"
    /\ snap' = None
    /\ latest' = [latest EXCEPT !.gp2y = None]
    /\ Goto("PUBLISHER", "sleep")
    /\ UNCHANGED <<drv, run2, readings, out, agg, i2c_lock, state_lock, stop_event, res,
                   ch_i, bme, ser, last_valid_result, smbus, s3_i, cyc, attempt,
                   last_good, stalled, budget>>

\* main.py:265-352  the rest of the tick works on the Publisher's own snap and
\* Window Buffer; of the state the threads share it touches nothing.  The
\* Window Buffer and the publish cycle are followed by PubTick, which takes a
\* whole tick as one step.
PubRest ==
    /\ Runs("PUBLISHER") /\ pc["PUBLISHER"] = "aggregate"
    /\ snap' = None
    /\ Goto("PUBLISHER", "sleep")
    /\ UNCHANGED <<drv, run2, readings, out, agg, i2c_lock, state_lock, stop_event, latest, res, ch_i, bme,
                   ser, last_valid_result, smbus, s3_i, cyc, attempt, last_good, stalled, budget>>

\* main.py:354, 249  time.sleep(period_s), then the loop test
PubSleep ==
    /\ Runs("PUBLISHER") /\ pc["PUBLISHER"] = "sleep"
    /\ Goto("PUBLISHER", IF stop_event THEN "done" ELSE "snap_state")
    /\ UNCHANGED <<drv, run2, readings, out, agg, i2c_lock, state_lock, stop_event, latest, res, ch_i, bme,
                   ser, last_valid_result, smbus, snap, s3_i, cyc, attempt, last_good, stalled,
                   budget>>

PublisherThread ==
    \/ PubConnect \/ PubLoop \/ PubSnapState \/ PubSnapCopy \/ PubReadShtc3
    \/ PubRest \/ PubSleep

MainThread ==
    \/ MainOpenSMBus \/ MainStart \/ MainInterrupt \/ MainClose

\* ------------------------------------------------------- specification
Next == MainThread \/ WorkerA \/ WorkerB \/ WorkerC \/ PublisherThread

Spec == Init /\ [][Next]_vars

\* -------------------------------------------------------- Window Buffer
\* A variant of Push that puts the pair at the head of the sequence.
PushFront(b, ts, key, val) ==
    IF val = None THEN b
    ELSE [b EXCEPT ![key] = <<[ts |-> ts, v |-> val.val]>> \o @]

\* main.py:86-92  _push without slot.  val is None or Some(v).
Push(b, ts, key, val) ==
    IF val = None THEN b
    ELSE [b EXCEPT ![key] = Append(@, [ts |-> ts, v |-> val.val])]

\* A variant of PushSlot that appends the pair twice.
PushSlotTwice(b, ts, key, val, slot) ==
    IF val = None THEN b
    ELSE [b EXCEPT ![key][slot] = @ \o <<[ts |-> ts, v |-> val.val],
                                         [ts |-> ts, v |-> val.val]>>]

\* main.py:86-92  _push with slot.
PushSlot(b, ts, key, val, slot) ==
    IF val = None THEN b
    ELSE [b EXCEPT ![key][slot] = Append(@, [ts |-> ts, v |-> val.val])]

\* main.py:99-100, 102-103  while d and d[0][0] < cutoff: d.popleft()
RECURSIVE PopLeftWhile(_, _)
PopLeftWhile(d, cutoff) ==
    IF Len(d) > 0 /\ Head(d).ts < cutoff THEN PopLeftWhile(Tail(d), cutoff)
    ELSE d

\* A variant of PruneNow that removes nothing.
PruneNowKeep(b, n) == b

\* main.py:94-103  _prune_now
PruneNow(b, n) ==
    LET cutoff == n - BUF_WINDOW_S
    IN  [temp_slots |-> [i \in Slots |-> PopLeftWhile(b.temp_slots[i], cutoff)],
         rh_slots |-> [i \in Slots |-> PopLeftWhile(b.rh_slots[i], cutoff)],
         bme_temp |-> PopLeftWhile(b.bme_temp, cutoff),
         bme_rh |-> PopLeftWhile(b.bme_rh, cutoff),
         bme_pres |-> PopLeftWhile(b.bme_pres, cutoff),
         co2 |-> PopLeftWhile(b.co2, cutoff),
         pm25 |-> PopLeftWhile(b.pm25, cutoff)]

\* main.py:294  vals(dq)
Vals(dq) == [i \in 1..Len(dq) |-> dq[i].v]

RECURSIVE Sum(_)
Sum(values) == IF Len(values) = 0 THEN 0 ELSE Head(values) + Sum(Tail(values))

\* main.py:105-106  _mean_safe, on values in hundredths: the mean rounded to
\* 2 decimals is the sum over the count rounded to a whole hundredth.
MeanSafe(values) ==
    IF Len(values) = 0 THEN None
    ELSE Some(RoundHalfEven(Sum(values), Len(values)))

\* A variant of MedianSafe that takes the middle of the list as it stands.
MedianUnsorted(values) ==
    LET n == Len(values)
    IN  IF n = 0 THEN None
        ELSE IF n % 2 = 1 THEN Some(100 * values[(n + 1) \div 2])
        ELSE Some(50 * (values[n \div 2] + values[n \div 2 + 1]))

\* A variant of TrimmedMeanSafe that never trims.
TrimmedMeanNoTrim(values) == MeanSafe(values)

\* sorted(values)
Sorted(values) == SortSeq(values, LAMBDA a, b : a < b)

\* main.py:108-109  _median_safe, on whole values; the result in hundredths.
MedianSafe(values) ==
    LET n == Len(values)
        srt == Sorted(values)
    IN  IF n = 0 THEN None
        ELSE IF n % 2 = 1 THEN Some(100 * srt[(n + 1) \div 2])
        ELSE Some(50 * (srt[n \div 2] + srt[n \div 2 + 1]))

\* main.py:111-123  _trimmed_mean_safe, on values in hundredths.
TrimmedMeanSafe(values) ==
    LET n == Len(values)
        k == (n * TRIM_FRAC) \div 100
        trimmed == SubSeq(Sorted(values), k + 1, n - k)
    IN  IF n = 0 THEN None
        ELSE IF n < MIN_SAMPLES_FOR_TRIM THEN MeanSafe(values)
        ELSE IF k = 0 THEN MeanSafe(values)
        ELSE IF Len(trimmed) = 0 THEN MeanSafe(values)
        ELSE MeanSafe(trimmed)

\* main.py:111-123  the return statement of _trimmed_mean_safe that values
\* reaches: line 113 ("none"), 116 ("few"), 119 ("k0"), 122 ("empty") or
\* 123 ("trimmed").
TrimBranch(values) ==
    LET n == Len(values)
        k == (n * TRIM_FRAC) \div 100
    IN  IF n = 0 THEN "none"
        ELSE IF n < MIN_SAMPLES_FOR_TRIM THEN "few"
        ELSE IF k = 0 THEN "k0"
        ELSE IF Len(SubSeq(Sorted(values), k + 1, n - k)) = 0 THEN "empty"
        ELSE "trimmed"

\* main.py:311-314  f4_float: None -> 0.0
F4Float(lst) == [i \in 1..4 |-> IF lst[i] = None THEN 0 ELSE lst[i].val]
\* A variant of SingleTo4Int that repeats the value in all four places.
SingleTo4IntAll(v) ==
    [i \in 1..4 |-> IF v = None THEN 0 ELSE RoundHalfEven(v.val, 100)]
\* main.py:316-318  single_to4_int: int(round(v)), v in hundredths
SingleTo4Int(v) == <<IF v = None THEN 0 ELSE RoundHalfEven(v.val, 100), 0, 0, 0>>
\* A variant of SingleTo4Float that marks a missing value with -1.
SingleTo4FloatMissing(v) == <<IF v = None THEN -1 ELSE v.val, 0, 0, 0>>

\* main.py:320-322  single_to4_float
SingleTo4Float(v) == <<IF v = None THEN 0 ELSE v.val, 0, 0, 0>>

\* A variant of SlotMean that pools the windows of the four zones.
SlotMeanPooled(b, key, i) ==
    LET all == Vals(b[key][0]) \o Vals(b[key][1]) \o Vals(b[key][2])
                 \o Vals(b[key][3])
    IN  IF Len(all) >= MIN_REQUIRED.slot THEN MeanSafe(all) ELSE None

\* main.py:299-303  the aggregate of slot i of temp_slots or rh_slots.
SlotMean(b, key, i) ==
    IF Len(b[key][i]) >= MIN_REQUIRED.slot
      THEN MeanSafe(Vals(b[key][i])) ELSE None

\* A variant of Payload that fills the temperature of an under-filled zone
\* from the BME280 temperature window.
PayloadBmeFallback(b) ==
    LET zone(i) == SlotMean(b, "temp_slots", i - 1)
        temp_slots == [i \in 1..4 |->
                          IF zone(i) = None /\ Len(b.bme_temp) >= 1
                            THEN MeanSafe(Vals(b.bme_temp)) ELSE zone(i)]
        rh_slots == [i \in 1..4 |-> SlotMean(b, "rh_slots", i - 1)]
        co2_aggr == IF Len(b.co2) >= MIN_REQUIRED.co2
                      THEN MedianSafe(Vals(b.co2)) ELSE None
        pm25_aggr == IF Len(b.pm25) >= MIN_REQUIRED.pm25
                       THEN TrimmedMeanSafe(Vals(b.pm25)) ELSE None
        pres_aggr == IF Len(b.bme_pres) >= MIN_REQUIRED.pres
                       THEN MeanSafe(Vals(b.bme_pres)) ELSE None
    IN  [hvac_id |-> 1,
         data |-> [temperature |-> F4Float(temp_slots),
                   humidity |-> F4Float(rh_slots),
                   co2 |-> SingleTo4Int(co2_aggr),
                   pm25 |-> SingleTo4Int(pm25_aggr),
                   pressure |-> SingleTo4Float(pres_aggr)]]

\* main.py:296-342  the payload built from the Window Buffer b.
Payload(b) ==
    LET temp_slots == [i \in 1..4 |-> SlotMean(b, "temp_slots", i - 1)]
        rh_slots == [i \in 1..4 |-> SlotMean(b, "rh_slots", i - 1)]
        co2_aggr == IF Len(b.co2) >= MIN_REQUIRED.co2
                      THEN MedianSafe(Vals(b.co2)) ELSE None
        pm25_aggr == IF Len(b.pm25) >= MIN_REQUIRED.pm25
                       THEN TrimmedMeanSafe(Vals(b.pm25)) ELSE None
        pres_aggr == IF Len(b.bme_pres) >= MIN_REQUIRED.pres
                       THEN MeanSafe(Vals(b.bme_pres)) ELSE None
    IN  [hvac_id |-> 1,
         data |-> [temperature |-> F4Float(temp_slots),
                   humidity |-> F4Float(rh_slots),
                   co2 |-> SingleTo4Int(co2_aggr),
                   pm25 |-> SingleTo4Int(pm25_aggr),
                   pressure |-> SingleTo4Float(pres_aggr)]]

\* A variant of FreshPayload that keeps the value of the previous payload
\* where the new aggregate is missing.
PayloadCarriedOver(b, prev) ==
    LET p == Payload(b)
        keep(new, old) == [i \in 1..4 |-> IF new[i] = 0 THEN old[i] ELSE new[i]]
    IN  IF prev = <<>> THEN p
        ELSE LET q == prev[Len(prev)].data
             IN  [p EXCEPT !.data = [k \in DOMAIN q |-> keep(p.data[k], q[k])]]

\* main.py:292-342  the payload of a publish after the payloads prev: the
\* aggregates are locals of the cycle, computed from the buffers b alone.
FreshPayload(b, prev) == Payload(b)

\* main.py:257-263  the pushes of the SHTC3 channels i..4 of ch_to_slot, each
\* entry read from latest["shtc3"] (s3 is that mapping).
RECURSIVE PushShtc3(_, _, _, _)
PushShtc3(b, ts, l, i) ==
    IF i > Len(ChToSlot) THEN b
    ELSE LET e == l.shtc3[ChToSlot[i].ch]
             b1 == IF e = None THEN b
                   ELSE PushSlot(PushSlot(b, ts, "temp_slots", Some(e.temp_c),
                                          ChToSlot[i].slot),
                                 ts, "rh_slots", Some(e.rh), ChToSlot[i].slot)
         IN  PushShtc3(b1, ts, l, i + 1)

\* main.py:265-277  the pushes of the BME280, MH-Z19B and GP2Y entries of the
\* snapshot s.
PushSnap(b, ts, s) ==
    LET b1 == IF s.bme280 = None THEN b
              ELSE Push(Push(Push(b, ts, "bme_temp", Some(s.bme280.temp_c)),
                             ts, "bme_rh", Some(s.bme280.rh)),
                        ts, "bme_pres", Some(s.bme280.press_hpa))
        b2 == IF s.mhz19b = None THEN b1
              ELSE Push(b1, ts, "co2", Some(s.mhz19b.co2))
    IN  IF s.gp2y = None THEN b2
        ELSE Push(b2, ts, "pm25", Some(s.gp2y.pm_ugm3))

\* main.py:283-288  have_slot or have_co2 or have_pm or have_pres
HaveSample(b) ==
    \/ \E i \in Slots : Len(b.temp_slots[i]) >= 1
    \/ Len(b.co2) >= 1
    \/ Len(b.pm25) >= 1
    \/ Len(b.bme_pres) >= 1

\* A variant of Due without the warm-up condition.
DueNoWarmup(n, fws, t) ==
    /\ fws # None
    /\ n - t >= BUF_WINDOW_S

\* A variant of Due without the publish timer.
DueNoTimer(n, fws, t) ==
    /\ fws # None
    /\ n - fws.val >= BUF_WINDOW_S

\* A variant of FirstWindowStart that goes back to None when the window
\* holds no sample.
FirstWindowStartReset(fws, b, n) ==
    IF ~HaveSample(b) THEN None
    ELSE IF fws = None THEN Some(n) ELSE fws

\* main.py:282-288  first_window_start after the warm-up check at time n
\* with the buffers b.
FirstWindowStart(fws, b, n) ==
    IF fws = None /\ HaveSample(b) THEN Some(n) ELSE fws

\* The Publisher is at the top of its loop (main.py:249-252) and can take
\* its next tick.
PubTickReady ==
    /\ Runs("PUBLISHER") /\ pc["PUBLISHER"] = "snap_state"
    /\ state_lock = Free
    /\ clock < MaxClock

\* A variant of Due with > for >=: the publish comes one tick late.
DueLate(n, fws, t) ==
    /\ fws # None
    /\ n - t > BUF_WINDOW_S
    /\ n - fws.val > BUF_WINDOW_S

\* main.py:291  the publish condition at time n, with first_window_start fws
\* and t0 t.
Due(n, fws, t) ==
    /\ fws # None
    /\ n - t >= BUF_WINDOW_S
    /\ n - fws.val >= BUF_WINDOW_S

\* main.py:249-354  one tick of the Publisher: snapshot, pushes, prune,
\* warm-up and, when a publish is due, the payload.  With sending the step
\* ends before the loop over TOPICS_PUB (main.py:347) when a publish is due;
\* otherwise it runs to sleep(1.0) and the loop test.
PubCycle(sending) ==
    /\ PubTickReady
    /\ LET n == clock
           s == ShallowCopy(latest)
           b == PruneNow(PushSnap(PushShtc3(buf, n, latest, 1), n, s), n)
           fws == FirstWindowStart(first_window_start, b, n)
           due == Due(n, fws, t0)
       IN  /\ now' = n
           /\ buf' = b
           /\ first_window_start' = fws
           /\ t0' = IF due THEN n ELSE t0
           /\ published' = IF due THEN Append(published, FreshPayload(b, published))
                           ELSE published
           /\ pubTimes' = IF due THEN Append(pubTimes, n) ELSE pubTimes
           /\ attempts' = IF due /\ sending THEN <<>> ELSE attempts
           /\ Goto("PUBLISHER", IF due /\ sending THEN "send"
                                ELSE IF stop_event THEN "done" ELSE "snap_state")
    /\ clock' = clock + 1
    /\ UNCHANGED <<drv, readings, agg, topic_i, i2c_lock, state_lock, stop_event, latest, res,
                   ch_i, bme, ser, last_valid_result, smbus, snap, s3_i, pushed,
                   lastWrite, attempt, last_good, stalled, budget>>

\* The tick as one step, the publish calls included.
PubTick == PubCycle(FALSE) /\ UNCHANGED run2

\* An iteration of worker A on one SHTC3 channel as one step
\* (main.py:144-152): the entry of a read, or None for a read that raised.
UpdateShtc3 ==
    /\ Runs("MUX_SHTS") /\ state_lock = Free /\ budget > 0
    /\ \E i \in 1..Len(ChToSlot), r \in {ShtRead(k) : k \in Samples} \cup {Raised} :
          /\ latest' = [latest EXCEPT !.shtc3[ChToSlot[i].ch] = ShtEntry(r)]
          /\ lastWrite' = IF r = Raised THEN lastWrite
                          ELSE [lastWrite EXCEPT !.slot[ChToSlot[i].slot] = clock]
    /\ budget' = budget - 1
    /\ UNCHANGED <<drv, run2, readings, out, agg, pc, i2c_lock, state_lock, stop_event, res, ch_i, bme, ser,
                   last_valid_result, smbus, snap, s3_i, clock, now, t0,
                   first_window_start, buf, published, pubTimes, pushed,
                   attempt,
                   last_good, stalled>>

\* The BME280 part of an iteration of worker B as one step (main.py:175-190).
UpdateBme280 ==
    /\ Runs("BME_GP2Y") /\ state_lock = Free /\ budget > 0
    /\ \E r \in {BmeRaw(k) : k \in Samples} \cup {Raised} :
          /\ latest' = [latest EXCEPT !.bme280 = BmeEntry(r)]
          /\ lastWrite' = IF r = Raised THEN lastWrite
                          ELSE [lastWrite EXCEPT !.pres = clock]
    /\ budget' = budget - 1
    /\ UNCHANGED <<drv, run2, readings, out, agg, pc, i2c_lock, state_lock, stop_event, res, ch_i, bme, ser,
                   last_valid_result, smbus, snap, s3_i, clock, now, t0,
                   first_window_start, buf, published, pubTimes, pushed,
                   attempt,
                   last_good, stalled>>

\* The GP2Y part of an iteration of worker B as one step (main.py:193-200).
UpdateGp2y ==
    /\ Runs("BME_GP2Y") /\ state_lock = Free /\ budget > 0
    /\ \E r \in {DustRead(k) : k \in Samples} \cup {Raised} :
          /\ latest' = [latest EXCEPT !.gp2y = Gp2yEntry(r)]
          /\ lastWrite' = IF r = Raised THEN lastWrite
                          ELSE [lastWrite EXCEPT !.pm25 = clock]
    /\ budget' = budget - 1
    /\ UNCHANGED <<drv, run2, readings, out, agg, pc, i2c_lock, state_lock, stop_event, res, ch_i, bme, ser,
                   last_valid_result, smbus, snap, s3_i, clock, now, t0,
                   first_window_start, buf, published, pubTimes, pushed,
                   attempt,
                   last_good, stalled>>

\* A variant of UpdateMhz19b in which worker C appends its reading to the
\* co2 window itself.
UpdateMhz19bPush ==
    /\ Runs("MHZ19B") /\ state_lock = Free /\ budget > 0
    /\ \E k \in Samples :
          /\ latest' = [latest EXCEPT !.mhz19b = MhzEntry(FrameRead(k))]
          /\ buf' = Push(buf, clock, "co2", Some(FrameRead(k).co2))
    /\ budget' = budget - 1
    /\ UNCHANGED <<drv, run2, readings, out, agg, pc, i2c_lock, state_lock, stop_event, res,
                   ch_i, bme, ser, last_valid_result, smbus, snap, s3_i, clock,
                   now, t0, first_window_start, published, pubTimes, pushed,
                   lastWrite, attempt, last_good, stalled>>

\* An iteration of worker C as one step (main.py:216-229), its read valid.
UpdateMhz19b ==
    /\ Runs("MHZ19B") /\ state_lock = Free /\ budget > 0
    /\ \E k \in Samples : latest' = [latest EXCEPT !.mhz19b = MhzEntry(FrameRead(k))]
    /\ budget' = budget - 1
    /\ UNCHANGED <<drv, run2, readings, out, agg, pc, i2c_lock, state_lock, stop_event, res, ch_i, bme, ser,
                   last_valid_result, smbus, snap, s3_i, cyc, attempt,
                   last_good, stalled>>

\* The threads after startup: main idles, the workers and the Publisher are
\* in their loops, the Publisher connected at time 0 (main.py:247).
InitPub ==
    InitWith([MAIN |-> "running", MUX_SHTS |-> "sleep", BME_GP2Y |-> "sleep",
              MHZ19B |-> "sleep", PUBLISHER |-> "snap_state"], MaxUpdates)

NextPub == PubTick \/ UpdateShtc3 \/ UpdateBme280 \/ UpdateGp2y \/ UpdateMhz19b

\* The publish cycle, tick by tick, against workers that install entries at
\* any time.
SpecPub == InitPub /\ [][NextPub]_vars

\* The Publisher thread is scheduled again and again and its sleep(1.0)
\* returns (main.py:354): a tick that can be taken is taken.  PubTick is the
\* only step of NextPub that changes clock, and it adds one to it whenever
\* PubTickReady holds, so the condition below is weak fairness of PubTick.
SpecPubFair ==
    SpecPub /\ WF_clock(PubTickReady /\ clock' = clock + 1)

\* ---------------------------------------------------- window operations
\* _push(ts, "co2", val) called with any timestamp (main.py:86-92).
WinPush ==
    /\ pc["PUBLISHER"] \in {"push", "pruned"}
    /\ Len(pushed) < MaxPushes
    /\ \E ts \in 0..MaxTs, val \in {None} \cup {Some(k) : k \in Samples} :
          /\ buf' = Push(buf, ts, "co2", val)
          /\ pushed' = IF val = None THEN pushed
                       ELSE Append(pushed, [ts |-> ts, v |-> val.val])
    /\ Goto("PUBLISHER", "push")
    /\ UNCHANGED <<drv, run2, readings, out, agg, i2c_lock, state_lock, stop_event, latest, res, ch_i, bme,
                   ser, last_valid_result, smbus, snap, s3_i, clock, now, t0,
                   first_window_start, published, pubTimes, lastWrite, attempt,
                   last_good, stalled, budget>>

\* _prune_now(n) for a time n not before the last one (main.py:94-103).
WinPrune ==
    /\ pc["PUBLISHER"] \in {"push", "pruned"}
    /\ \E n \in now..(BUF_WINDOW_S + MaxTs) :
          /\ buf' = PruneNow(buf, n)
          /\ now' = n
    /\ Goto("PUBLISHER", "pruned")
    /\ UNCHANGED <<drv, run2, readings, out, agg, i2c_lock, state_lock, stop_event, latest, res, ch_i, bme,
                   ser, last_valid_result, smbus, snap, s3_i, clock, t0,
                   first_window_start, published, pubTimes, pushed, lastWrite,
                   attempt,
                   last_good, stalled, budget>>

InitWin ==
    InitWith([MAIN |-> "running", MUX_SHTS |-> "sleep", BME_GP2Y |-> "sleep",
              MHZ19B |-> "sleep", PUBLISHER |-> "push"], 0)

NextWin == WinPush \/ WinPrune

\* _push and _prune_now applied to the co2 window in any order.
SpecWin == InitWin /\ [][NextWin]_vars

\* --------------------------------------------------------- _push calls
\* The keys of buf that hold one sequence and those that hold one per slot
\* (main.py:76-84).
PlainKeys == {"bme_temp", "bme_rh", "bme_pres", "co2", "pm25"}
SlotKeys == {"temp_slots", "rh_slots"}
NoSlot == [none |-> TRUE]

\* _push(ts, key, val, slot) with any arguments (main.py:86-92); pushed
\* keeps the calls.
PushCall ==
    /\ pc["PUBLISHER"] = "push"
    /\ Len(pushed) < MaxPushes
    /\ \E ts \in 0..MaxTs, val \in {None} \cup {Some(k) : k \in Samples} :
          \/ \E key \in PlainKeys :
                /\ buf' = Push(buf, ts, key, val)
                /\ pushed' = Append(pushed, [key |-> key, slot |-> NoSlot,
                                              ts |-> ts, val |-> val])
          \/ \E key \in SlotKeys, slot \in Slots :
                /\ buf' = PushSlot(buf, ts, key, val, slot)
                /\ pushed' = Append(pushed, [key |-> key, slot |-> Some(slot),
                                              ts |-> ts, val |-> val])
    /\ UNCHANGED <<drv, run2, readings, out, agg, pc, i2c_lock, state_lock, stop_event,
                   latest, res, ch_i, bme, ser, last_valid_result, smbus, snap,
                   s3_i, clock, now, t0, first_window_start, published,
                   pubTimes, lastWrite, attempt, last_good, stalled, budget>>

NextPush == PushCall

\* _push called up to MaxPushes times.
SpecPush == InitWin /\ [][NextPush]_vars

\* ------------------------------------------------------- publish calls
\* The configured destinations (config.py is not part of the sources; main.py
\* only iterates over the list, main.py:347).
TOPICS_PUB == <<"topic_1", "topic_2">>

\* A variant of AfterAttempt that leaves the loop when the call raised.
AfterAttemptAbort(i, ok) == IF ok THEN i + 1 ELSE Len(TOPICS_PUB) + 1

\* main.py:347-352  the position of the loop over TOPICS_PUB after the
\* publish call for destination i returned (ok) or raised: the handler
\* prints and the loop goes on.
AfterAttempt(i, ok) == i + 1

\* The tick up to the loop over TOPICS_PUB.
SendTick == PubCycle(TRUE) /\ UNCHANGED run2

\* main.py:347-354  one iteration of the loop over TOPICS_PUB:
\* mqtt.publish(topic, msg, qos) returns or raises
\* (mqtt_client.py:14-20); after the last one, sleep(1.0) and the loop test.
SendTopic ==
    /\ Runs("PUBLISHER") /\ pc["PUBLISHER"] = "send"
    /\ \E ok \in BOOLEAN :
          /\ attempts' = Append(attempts, [topic |-> TOPICS_PUB[topic_i],
                                            ok |-> ok])
          /\ IF AfterAttempt(topic_i, ok) <= Len(TOPICS_PUB)
                THEN topic_i' = AfterAttempt(topic_i, ok) /\ UNCHANGED pc
                ELSE /\ topic_i' = 1
                     /\ Goto("PUBLISHER",
                             IF stop_event THEN "done" ELSE "snap_state")
    /\ UNCHANGED <<drv, run2, agg, i2c_lock, state_lock, stop_event, latest, res, ch_i, bme,
                   ser, last_valid_result, smbus, snap, s3_i, cyc, readings, attempt,
                   last_good, stalled, budget>>

NextSend == SendTick \/ SendTopic \/ UpdateMhz19b

\* The publish cycle with the publish calls one by one, each free to raise,
\* against a worker C that installs readings.
SpecSend == InitPub /\ [][NextSend]_vars

\* ------------------------------------------------ aggregation functions
\* co2 readings, in ppm, and pm25 readings, in hundredths of ug/m3.
Co2Values == {400, 420, 440, 460}
PmValues == {1000, 1200, 1900}
\* The temperatures one zone delivered within a window, in hundredths.
ZoneSamples == {<<>>, <<2000>>, <<2000, 2100>>, <<1950, 1970>>,
                <<2100, 1950, 1970>>}

\* The lists of at most n elements of S.
SeqsUpTo(S, n) == UNION {[1..m -> S] : m \in 0..n}

\* The deque after _push(j, key, vs[j]) for j = 1, 2, ... (main.py:86-92).
Window(vs) == [j \in 1..Len(vs) |-> [ts |-> j, v |-> vs[j]]]

\* The input of the aggregation: a list of values, or the windows of the
\* four zones, temperature and humidity pushed together (main.py:259-263).
AggInput ==
    /\ pc["PUBLISHER"] = "agg_input"
    /\ \/ /\ given' \in SeqsUpTo(Co2Values, MaxMedianLen)
                         \cup SeqsUpTo(PmValues, MaxTrimLen)
          /\ buf' = buf
       \/ /\ \E z \in [Slots -> ZoneSamples] :
                buf' = [buf EXCEPT
                          !.temp_slots = [i \in Slots |-> Window(z[i])],
                          !.rh_slots = [i \in Slots |->
                              Window([j \in 1..Len(z[i]) |-> z[i][j] + 2000])]]
          /\ given' = given
    /\ Goto("PUBLISHER", "aggregate")
    /\ UNCHANGED <<drv, run2, i2c_lock, state_lock, stop_event, latest, res, ch_i, bme,
                   ser, last_valid_result, smbus, snap, s3_i, clock, now, t0,
                   first_window_start, published, pubTimes, pushed, lastWrite,
                   aggr, out, readings, attempt, last_good, stalled, budget>>

\* _mean_safe, _median_safe and _trimmed_mean_safe applied to the list
\* (main.py:105-123) and the payload built from the windows
\* (main.py:294-342).
Aggregate ==
    /\ pc["PUBLISHER"] = "aggregate"
    /\ aggr' = [mean |-> MeanSafe(given), median |-> MedianSafe(given),
                trimmed |-> TrimmedMeanSafe(given)]
    /\ published' = <<Payload(buf)>>
    /\ Goto("PUBLISHER", "aggregated")
    /\ UNCHANGED <<drv, run2, i2c_lock, state_lock, stop_event, latest, res, ch_i, bme,
                   ser, last_valid_result, smbus, snap, s3_i, clock, now, t0,
                   first_window_start, buf, pubTimes, pushed, lastWrite,
                   given, out, readings, attempt, last_good, stalled, budget>>

InitAgg ==
    InitWith([MAIN |-> "running", MUX_SHTS |-> "sleep", BME_GP2Y |-> "sleep",
              MHZ19B |-> "sleep", PUBLISHER |-> "agg_input"], 0)

NextAgg == AggInput \/ Aggregate

\* The aggregation functions on every list and every set of zone windows
\* within the bounds.
SpecAgg == InitAgg /\ [][NextAgg]_vars

\* ---------------------------------------------- the MH-Z19B worker alone
\* The program with workers A and B not scheduled and up to MaxMhzFaults
\* faults.
InitMhz ==
    InitWith([t \in Threads |-> IF t = "MAIN" THEN "open_smbus" ELSE "unstarted"],
             MaxMhzFaults)

NextMhz == MainThread \/ WorkerC \/ PublisherThread

SpecMhz == InitMhz /\ [][NextMhz]_vars

\* ------------------------------------------------- entries of latest
\* The program without faults, worker C not scheduled, the sensors delivering
\* MaxEntryReading different readings.
InitEntry ==
    InitFull([t \in Threads |-> IF t = "MAIN" THEN "open_smbus" ELSE "unstarted"],
             0, MaxEntryReading)

NextEntry == MainThread \/ WorkerA \/ WorkerB \/ PublisherThread

SpecEntry == InitEntry /\ [][NextEntry]_vars

\* ------------------------------------------------------ stalled workers
\* The statements at which a thread is inside a call on the I2C bus
\* (main.py:134-135, 146-147, 161, 166-168, 177-180, 195).
BusPcs == {"sht41_bus", "shtc3_bus", "check_chip", "bme_init_bus", "bme_bus",
           "gp2y_bus"}
\* The blocking acquires of i2c_lock (main.py:133, 145, 165, 176, 194).
GuardWaitPcs == {"sht41_lock", "shtc3_lock", "bme_init_lock", "bme_lock",
                 "gp2y_lock"}
\* The statements that read or write latest (main.py:137, 140, 149, 152,
\* 182, 190, 197, 200, 226, 229, 253, 260).
LatestPcs == {"sht41_store", "shtc3_store", "bme_store", "gp2y_store",
              "mhz_store", "snap_copy", "read_shtc3"}

\* A blocking call of worker t that does not return: a bus call (SMBus has no
\* timeout of its own) or the serial read of main.py:217.  The worker stays
\* where it is, with what it holds.
Stall(t) ==
    /\ Runs(t) /\ pc[t] \in BusPcs \cup {"mhz_read"}
    /\ budget > 0
    /\ stalled' = stalled \cup {t}
    /\ budget' = budget - 1
    /\ UNCHANGED <<drv, run2, readings, out, agg, pc, i2c_lock, state_lock, stop_event, latest, res, ch_i,
                   bme, ser, last_valid_result, smbus, snap, s3_i, cyc,
                   attempt, last_good>>

NextStall == Next \/ \E t \in Workers : Stall(t)

SpecStall == Init /\ [][NextStall]_vars

\* ------------------------------------------- the MH-Z19B startup wait
\* MH_Z19B.init statement by statement, as worker_mhz calls it
\* (main.py:210); res["MHZ19B"] is the local result / first_response.
\* MH_Z19B.py:105, 78  open the port (a raise leaves init), start_time
WaitStart ==
    /\ Runs("MHZ19B") /\ pc["MHZ19B"] = "wait_start"
    /\ \/ /\ budget > 0 /\ budget' = budget - 1
          /\ Goto("MHZ19B", "init_raised")
          /\ UNCHANGED start_time
       \/ /\ budget' = budget
          /\ start_time' = wall
          /\ Goto("MHZ19B", "wait_read")
    /\ UNCHANGED <<i2c_lock, state_lock, stop_event, latest, ch_i, bme, smbus, snap,
                   s3_i, cyc, agg, out, cmds, run2, readings, attempt, stalled, res, ser,
                   last_valid_result, last_good, wall>>

\* MH_Z19B.py:81  result = read_mhz19(ser): ser.read(9) returns within the
\* port's timeout with a valid frame or with an invalid or short one; a
\* raise of the port leaves init.
WaitRead ==
    /\ Runs("MHZ19B") /\ pc["MHZ19B"] = "wait_read"
    /\ \E d \in 0..SER_TIMEOUT :
          /\ wall + d <= MaxWall
          /\ wall' = wall + d
    /\ \/ /\ \E k \in Samples : /\ res' = [res EXCEPT !["MHZ19B"] = FrameRead(k)]
                                /\ last_good' = FrameRead(k)
          /\ budget' = budget
          /\ Goto("MHZ19B", "wait_check")
       \/ /\ res' = [res EXCEPT !["MHZ19B"] = None]
          /\ UNCHANGED <<last_good, budget>>
          /\ Goto("MHZ19B", "wait_check")
       \/ /\ budget > 0 /\ budget' = budget - 1
          /\ res' = [res EXCEPT !["MHZ19B"] = Raised]
          /\ UNCHANGED last_good
          /\ Goto("MHZ19B", "init_raised")
    /\ UNCHANGED <<i2c_lock, state_lock, stop_event, latest, ch_i, bme, smbus, snap,
                   s3_i, cyc, agg, out, cmds, run2, readings, attempt, stalled, ser,
                   last_valid_result, start_time>>

\* A variant of WaitExpired that never gives up.
WaitExpiredNever(t, st) == FALSE

\* MH_Z19B.py:86  time.time() - start_time > timeout
WaitExpired(t, st) == t - st > WAIT_TIMEOUT

\* MH_Z19B.py:82-89  return the frame, or None once the timeout is over
WaitCheck ==
    /\ Runs("MHZ19B") /\ pc["MHZ19B"] = "wait_check"
    /\ Goto("MHZ19B",
            IF res["MHZ19B"] # None THEN "init_ret"
            ELSE IF WaitExpired(wall, start_time) THEN "init_ret"
            ELSE "wait_sleep")
    /\ UNCHANGED <<i2c_lock, state_lock, stop_event, latest, ch_i, bme, smbus, snap,
                   s3_i, cyc, agg, out, cmds, run2, readings, attempt, stalled, res, ser,
                   last_valid_result, last_good, wall, start_time, budget>>

\* MH_Z19B.py:90  time.sleep(0.5)
WaitSleep ==
    /\ Runs("MHZ19B") /\ pc["MHZ19B"] = "wait_sleep"
    /\ wall < MaxWall
    /\ wall' = wall + 1
    /\ Goto("MHZ19B", "wait_read")
    /\ UNCHANGED <<i2c_lock, state_lock, stop_event, latest, ch_i, bme, smbus, snap,
                   s3_i, cyc, agg, out, cmds, run2, readings, attempt, stalled, res, ser,
                   last_valid_result, last_good, start_time, budget>>

\* MH_Z19B.py:108-111 and main.py:210  keep a valid first response, return
\* the port
InitReturn ==
    /\ Runs("MHZ19B") /\ pc["MHZ19B"] = "init_ret"
    /\ last_valid_result' = IF res["MHZ19B"] # None THEN res["MHZ19B"]
                            ELSE last_valid_result
    /\ ser' = Handle("serial0")
    /\ Goto("MHZ19B", "init_done")
    /\ UNCHANGED <<i2c_lock, state_lock, stop_event, latest, ch_i, bme, smbus, snap,
                   s3_i, cyc, agg, out, cmds, run2, readings, attempt, stalled, res,
                   last_good, wall, start_time, budget>>

InitWait ==
    InitFull([t \in Threads |-> IF t = "MAIN" THEN "running"
                                ELSE IF t = "MHZ19B" THEN "wait_start"
                                ELSE "unstarted"], MaxFailures, MaxEntryReading)

NextWait == WaitStart \/ WaitRead \/ WaitCheck \/ WaitSleep \/ InitReturn

SpecWait == InitWait /\ [][NextWait]_vars

\* The thread is scheduled again and again, and every call of the loop
\* returns: ser.read(9) within the port's timeout, time.sleep(0.5) after
\* half a second.
SpecWaitFair == SpecWait /\ WF_vars(NextWait)

\* ------------------------------------------- SHTC3.read_single_sensor
\* The calls of worker A's channel loop (main.py:144-147) statement by
\* statement.  cmds holds the commands the sensor received in the current
\* call, ok telling whether its answer validated; a bus write that raises
\* sends nothing.  res["MUX_SHTS"] is what the call returned, or Raised.
Sent(c, ok) == [cmd |-> c, ok |-> ok]

\* SHTC3.py:156, 83-86  reset_sensor
RsReset ==
    /\ Runs("MUX_SHTS") /\ pc["MUX_SHTS"] = "rs_reset"
    /\ \/ /\ cmds' = Append(cmds, Sent("reset", TRUE))
          /\ Goto("MUX_SHTS", "rs_wake")
          /\ UNCHANGED <<res, budget>>
       \/ /\ budget > 0 /\ budget' = budget - 1
          /\ res' = [res EXCEPT !["MUX_SHTS"] = Raised]
          /\ Goto("MUX_SHTS", "rs_exit")
          /\ UNCHANGED cmds
    /\ UNCHANGED <<wall, start_time, run2, readings, out, agg, i2c_lock,
                   state_lock, stop_event, latest, bme, ser, last_valid_result,
                   smbus, snap, s3_i, cyc, attempt, last_good, stalled, ch_i>>

\* SHTC3.py:157, 73-76  wake_sensor
RsWake ==
    /\ Runs("MUX_SHTS") /\ pc["MUX_SHTS"] = "rs_wake"
    /\ \/ /\ cmds' = Append(cmds, Sent("wake", TRUE))
          /\ Goto("MUX_SHTS", "rs_verify")
          /\ UNCHANGED <<res, budget>>
       \/ /\ budget > 0 /\ budget' = budget - 1
          /\ res' = [res EXCEPT !["MUX_SHTS"] = Raised]
          /\ Goto("MUX_SHTS", "rs_exit")
          /\ UNCHANGED cmds
    /\ UNCHANGED <<wall, start_time, run2, readings, out, agg, i2c_lock,
                   state_lock, stop_event, latest, bme, ser, last_valid_result,
                   smbus, snap, s3_i, cyc, attempt, last_good, stalled, ch_i>>

\* SHTC3.py:158-159, 92-109  verify_wake: the ID answer validates, or it does
\* not, or the bus raises (caught, False); not verified raises RuntimeError.
RsVerify ==
    /\ Runs("MUX_SHTS") /\ pc["MUX_SHTS"] = "rs_verify"
    /\ \/ /\ cmds' = Append(cmds, Sent("id", TRUE))
          /\ Goto("MUX_SHTS", "rs_measure")
          /\ UNCHANGED <<res, budget>>
       \/ /\ cmds' = Append(cmds, Sent("id", FALSE))
          /\ res' = [res EXCEPT !["MUX_SHTS"] = Raised]
          /\ Goto("MUX_SHTS", "rs_exit")
          /\ UNCHANGED budget
       \/ /\ budget > 0 /\ budget' = budget - 1
          /\ res' = [res EXCEPT !["MUX_SHTS"] = Raised]
          /\ Goto("MUX_SHTS", "rs_exit")
          /\ UNCHANGED cmds
    /\ UNCHANGED <<wall, start_time, run2, readings, out, agg, i2c_lock,
                   state_lock, stop_event, latest, bme, ser, last_valid_result,
                   smbus, snap, s3_i, cyc, attempt, last_good, stalled, ch_i>>

\* SHTC3.py:160, 115-137  measure: both CRCs validate and the reading is
\* returned, or one does not (ValueError), or the bus raises.
RsMeasure ==
    /\ Runs("MUX_SHTS") /\ pc["MUX_SHTS"] = "rs_measure"
    /\ \/ /\ \E t_ok \in BOOLEAN, h_ok \in BOOLEAN :
                /\ cmds' = Append(cmds, Sent("measure", t_ok /\ h_ok))
                /\ IF t_ok /\ h_ok
                     THEN /\ \E k \in Samples :
                               res' = [res EXCEPT !["MUX_SHTS"] = ShtRead(k)]
                          /\ Goto("MUX_SHTS", "rs_sleep")
                     ELSE /\ res' = [res EXCEPT !["MUX_SHTS"] = Raised]
                          /\ Goto("MUX_SHTS", "rs_exit")
          /\ UNCHANGED budget
       \/ /\ budget > 0 /\ budget' = budget - 1
          /\ res' = [res EXCEPT !["MUX_SHTS"] = Raised]
          /\ Goto("MUX_SHTS", "rs_exit")
          /\ UNCHANGED cmds
    /\ UNCHANGED <<wall, start_time, run2, readings, out, agg, i2c_lock,
                   state_lock, stop_event, latest, bme, ser, last_valid_result,
                   smbus, snap, s3_i, cyc, attempt, last_good, stalled, ch_i>>

\* SHTC3.py:161-162, 78-81  sleep_sensor, return temp, hum
RsSleep ==
    /\ Runs("MUX_SHTS") /\ pc["MUX_SHTS"] = "rs_sleep"
    /\ \/ /\ cmds' = Append(cmds, Sent("sleep", TRUE))
          /\ UNCHANGED <<res, budget>>
       \/ /\ budget > 0 /\ budget' = budget - 1
          /\ res' = [res EXCEPT !["MUX_SHTS"] = Raised]
          /\ UNCHANGED cmds
    /\ Goto("MUX_SHTS", "rs_exit")
    /\ UNCHANGED <<wall, start_time, run2, readings, out, agg, i2c_lock,
                   state_lock, stop_event, latest, bme, ser, last_valid_result,
                   smbus, snap, s3_i, cyc, attempt, last_good, stalled, ch_i>>

\* main.py:144-152  the call is over: on to the call for the next channel
RsNext ==
    /\ Runs("MUX_SHTS") /\ pc["MUX_SHTS"] = "rs_exit"
    /\ ch_i' = (ch_i % Len(TARGET_CHANNELS)) + 1
    /\ cmds' = <<>>
    /\ res' = [res EXCEPT !["MUX_SHTS"] = None]
    /\ Goto("MUX_SHTS", "rs_reset")
    /\ UNCHANGED <<wall, start_time, run2, readings, out, agg, i2c_lock,
                   state_lock, stop_event, latest, bme, ser, last_valid_result,
                   smbus, snap, s3_i, cyc, attempt, last_good, stalled, budget>>

InitShtc3 ==
    InitFull([t \in Threads |-> IF t = "MAIN" THEN "running"
                                ELSE IF t = "MUX_SHTS" THEN "rs_reset"
                                ELSE "unstarted"], MaxMhzFaults, MaxEntryReading)

NextShtc3 == RsReset \/ RsWake \/ RsVerify \/ RsMeasure \/ RsSleep \/ RsNext

SpecShtc3 == InitShtc3 /\ [][NextShtc3]_vars

\* --------------------------------------------------- two runs side by side
\* The publish cycle twice over: the same schedule, the same reads failing,
\* the readings of the second run free to differ.  run2 holds the second
\* run's latest and Publisher locals; run2.differs names the sources whose
\* reading has differed between the runs so far.
Src(name, ch) == [src |-> name, ch |-> ch]

\* A worker installs an entry in latest, in both runs (main.py:136-152,
\* 182-200, 225-229): k is the reading of the first run, k2 and k3 those of
\* the second.
DepUpdate ==
    /\ state_lock = Free /\ budget > 0
    /\ \E k \in Samples, k2 \in Samples, k3 \in Samples :
          LET d(name, ch, a, b) == IF a # b THEN {Src(name, ch)} ELSE {}
          IN
          \/ /\ Runs("MUX_SHTS") /\ k3 = k2
             /\ latest' = [latest EXCEPT !.sht41 = ShtEntry(ShtRead(k))]
             /\ run2' = [run2 EXCEPT !.latest.sht41 = ShtEntry(ShtRead(k2)),
                                     !.differs = @ \cup d("sht41", 0, k, k2)]
          \/ /\ Runs("MUX_SHTS") /\ k3 = k2
             /\ \E i \in 1..Len(ChToSlot) :
                   LET ch == ChToSlot[i].ch
                   IN  /\ latest' = [latest EXCEPT
                                       !.shtc3[ch] = ShtEntry(ShtRead(k))]
                       /\ run2' = [run2 EXCEPT
                                     !.latest.shtc3[ch] = ShtEntry(ShtRead(k2)),
                                     !.differs = @ \cup d("shtc3", ch, k, k2)]
          \/ /\ Runs("BME_GP2Y")
             /\ latest' = [latest EXCEPT !.bme280 = BmeEntry(BmeRaw(k))]
             /\ run2' = [run2 EXCEPT
                           !.latest.bme280 =
                               [BmeEntry(BmeRaw(k2)) EXCEPT
                                  !.press_hpa = BmeEntry(BmeRaw(k3)).press_hpa],
                           !.differs = @ \cup d("bme280_th", 0, k, k2)
                                         \cup d("bme280_pres", 0, k, k3)]
          \/ /\ Runs("BME_GP2Y") /\ k3 = k2
             /\ latest' = [latest EXCEPT !.gp2y = Gp2yEntry(DustRead(k))]
             /\ run2' = [run2 EXCEPT !.latest.gp2y = Gp2yEntry(DustRead(k2)),
                                     !.differs = @ \cup d("gp2y", 0, k, k2)]
          \/ /\ Runs("MHZ19B") /\ k3 = k2
             /\ latest' = [latest EXCEPT !.mhz19b = MhzEntry(FrameRead(k))]
             /\ run2' = [run2 EXCEPT !.latest.mhz19b = MhzEntry(FrameRead(k2)),
                                     !.differs = @ \cup d("mhz19b", 0, k, k2)]
          \/ /\ Runs("BME_GP2Y") /\ k = 1 /\ k2 = 1 /\ k3 = 1
             /\ latest' = [latest EXCEPT !.gp2y = Gp2yEntry(Raised)]
             /\ run2' = [run2 EXCEPT !.latest.gp2y = Gp2yEntry(Raised)]
    /\ budget' = budget - 1
    /\ UNCHANGED <<drv, readings, out, agg, pc, i2c_lock, state_lock, stop_event,
                   res, ch_i, bme, ser, last_valid_result, smbus, snap, s3_i,
                   cyc, attempt, last_good, stalled>>

\* main.py:249-354  one tick of the Publisher in both runs, at the same time.
DepTick ==
    /\ clock < MaxDepClock
    /\ PubCycle(FALSE)
    /\ LET n == clock
           l == run2.latest
           b == PruneNow(PushSnap(PushShtc3(run2.buf, n, l, 1), n,
                                  ShallowCopy(l)), n)
           fws == FirstWindowStart(run2.first_window_start, b, n)
           due == Due(n, fws, run2.t0)
       IN  run2' = [run2 EXCEPT
                      !.buf = b,
                      !.first_window_start = fws,
                      !.t0 = IF due THEN n ELSE @,
                      !.published = IF due THEN Append(@, FreshPayload(b, @))
                                    ELSE @]

InitDep ==
    InitFull([MAIN |-> "running", MUX_SHTS |-> "sleep", BME_GP2Y |-> "sleep",
              MHZ19B |-> "sleep", PUBLISHER |-> "snap_state"],
             MaxUpdates, MaxEntryReading)

NextDep == DepTick \/ DepUpdate

SpecDep == InitDep /\ [][NextDep]_vars

\* ------------------------------------------------------------ properties
\* C1: every thread that is inside a call on the I2C bus (the periodic reads
\* of workers A and B, the BME280 driver initialisation and the startup chip
\* probe check_chip) holds i2c_lock.
C1_BusAccessUnderGuard ==
    \A t \in Threads : pc[t] \in BusPcs => i2c_lock = t

\* C2: every thread that is at a read or a write of latest, the nested
\* per-channel SHTC3 entries included, holds state_lock.
C2_LatestAccessUnderStateLock ==
    \A t \in Threads : pc[t] \in LatestPcs => state_lock = t

\* C4: a failed connect to the broker does not end the Publisher: the
\* Publisher thread is finished only after shutdown was requested.
C4_ConnectFailureKeepsPublisher ==
    pc["PUBLISHER"] = "done" => stop_event

\* C6: a bus handle that cannot be opened at startup (the shared SMBus
\* handle, the BME280 driver, the serial port) does not end the process: the
\* main thread gets to start the threads whatever the open did.
C6_OpenFailureKeepsProcess ==
    pc["MAIN"] # "crashed"

\* C7: a worker that stalls never blocks another thread: no thread waits for
\* the Bus Access Guard while its holder hangs for good.
C7_NoWaitOnStalledHolder ==
    \A t \in Threads : pc[t] \in GuardWaitPcs => i2c_lock \notin stalled

\* The attempt on the SHTC3 channel c is read but not yet handled.
Shtc3Pending(c) ==
    /\ pc["MUX_SHTS"] \in {"shtc3_state", "shtc3_store"}
    /\ TARGET_CHANNELS[ch_i] = c

\* C3: when the last CO2 read of worker C gave no valid frame and the worker
\* has handled it, latest["mhz19b"] is the entry of the most recent valid
\* frame read from the sensor, and None only if there never was one.
C3_FailureStoresLastGood ==
    (attempt.mhz19b = "invalid" /\ pc["MHZ19B"] \notin {"mhz_state", "mhz_store"})
    => latest.mhz19b = MhzEntry(last_good)

\* The co2 window as _prune_now must leave it: the pushed entries not older
\* than the window, in the order of their pushes.
InWindow(n) == SelectSeq(pushed, LAMBDA x : x.ts >= n - BUF_WINDOW_S)

\* C5: after _prune_now(now) the window holds exactly the pushed entries
\* whose timestamp is >= now - 10, whatever the order of the timestamps.
C5_PruneExact ==
    pc["PUBLISHER"] = "pruned" => buf.co2 = InWindow(now)

\* C8: for every metric but CO2, the last published value is the filler when
\* the owning worker installed no reading in latest during the 10 s before
\* that publish (t0 is the time of the last publish).
C8_NoStalePublish ==
    Len(published) > 0 =>
        LET p == published[Len(published)].data
            stale(t) == t < t0 - BUF_WINDOW_S
        IN  /\ \A i \in Slots :
                  stale(lastWrite.slot[i])
                  => p.temperature[i + 1] = 0 /\ p.humidity[i + 1] = 0
            /\ stale(lastWrite.pres) => p.pressure[1] = 0
            /\ stale(lastWrite.pm25) => p.pm25[1] = 0

\* C9: for SHT41, each SHTC3 channel, BME280 and GP2Y: when the last read
\* attempt of the identifier failed and the worker has handled it, the
\* identifier's entry in latest is None, and it is None in every state until
\* the next attempt succeeds.
C9_FailedReadLeavesNone ==
    /\ (attempt.sht41 = "failed"
          /\ pc["MUX_SHTS"] \notin {"sht41_state", "sht41_store"})
        => latest.sht41 = None
    /\ \A c \in Channels :
          (attempt.shtc3[c] = "failed" /\ ~Shtc3Pending(c))
          => latest.shtc3[c] = None
    /\ (attempt.bme280 = "failed"
          /\ pc["BME_GP2Y"] \notin {"bme_state", "bme_store"})
        => latest.bme280 = None
    /\ (attempt.gp2y = "failed"
          /\ pc["BME_GP2Y"] \notin {"gp2y_state", "gp2y_store"})
        => latest.gp2y = None

\* Worker B has handled a failed GP2Y read while its BME280 entry is present,
\* and worker A a failed read of channel 3 while channel 2 is present.
C9_Witness ==
    \/ /\ attempt.gp2y = "failed" /\ pc["BME_GP2Y"] = "sleep"
       /\ latest.gp2y = None /\ latest.bme280 # None
    \/ /\ attempt.shtc3[3] = "failed" /\ pc["MUX_SHTS"] = "shtc3_lock"
       /\ ch_i = 3 /\ latest.shtc3[3] = None /\ latest.shtc3[2] # None

\* C10: no thread holds i2c_lock and state_lock at once, and no thread waits
\* for one of them while it holds the other, so the two locks cannot
\* deadlock.
C10_NeverBothLocks ==
    \A t \in Threads :
        /\ ~(i2c_lock = t /\ state_lock = t)
        /\ pc[t] \in GuardWaitPcs => state_lock # t
        /\ pc[t] \in {"sht41_state", "shtc3_state", "bme_state", "gp2y_state",
                      "mhz_state", "snap_state"} => i2c_lock # t

\* Both locks are held, by two different threads, while a third thread waits
\* for the state lock.
C10_Witness ==
    /\ i2c_lock # Free /\ state_lock # Free /\ i2c_lock # state_lock
    /\ \E t \in Threads : pc[t] \in {"sht41_state", "shtc3_state", "bme_state",
                                      "gp2y_state", "mhz_state", "snap_state"}

\* The statements inside a `with i2c_lock:` block (main.py:134-135, 146-147,
\* 166-168, 177-180, 195).
GuardedBusPcs == BusPcs \ {"check_chip"}

\* C11: at most one thread is inside an i2c_lock-guarded transaction, and it
\* holds the guard: while worker A is between taking the guard and the end
\* of its select-channel-then-read, worker B is in no guarded bus operation.
C11_OneTransactionAtATime ==
    /\ Cardinality({t \in Threads : pc[t] \in GuardedBusPcs}) <= 1
    /\ \A t \in Threads : pc[t] \in GuardedBusPcs => i2c_lock = t

\* Worker A is inside its SHTC3 transaction while worker B waits for the
\* guard to read the BME280 or the GP2Y.
C11_Witness ==
    /\ pc["MUX_SHTS"] = "shtc3_bus" /\ i2c_lock = "MUX_SHTS"
    /\ pc["BME_GP2Y"] \in {"bme_lock", "gp2y_lock"}

\* C12: a worker holds i2c_lock only while it is inside its transaction: the
\* guard is released when the transaction ends, by a return or by a raise,
\* and it is never held during the sleep of the sampling period.
C12_GuardHeldOnlyInTransaction ==
    \A t \in Threads :
        /\ i2c_lock = t => pc[t] \in GuardedBusPcs
        /\ pc[t] \in {"sleep", "done"} => i2c_lock # t

\* Worker B's BME280 read has raised: the worker, about to store None, no
\* longer holds the guard, and worker A has taken it.
C12_Witness ==
    /\ pc["BME_GP2Y"] = "bme_state" /\ res["BME_GP2Y"] = Raised
    /\ i2c_lock = "MUX_SHTS"

\* C13: the Publisher does not publish during warm-up: while no metric has
\* received a sample (first_window_start is None exactly as long as the
\* Window Buffer never held one) nothing is published, and every publish is
\* at a tick at least 10 s after the tick of the first sample.
C13_NoPublishInWarmup ==
    /\ first_window_start = None => (buf = EmptyBuf /\ pubTimes = <<>>)
    /\ \A i \in 1..Len(pubTimes) :
          /\ first_window_start # None
          /\ pubTimes[i] >= first_window_start.val + BUF_WINDOW_S

\* The publish timer has run out (10 s since t0) but the first sample is less
\* than 10 s old: the tick did not publish.
C13_Witness ==
    /\ first_window_start # None
    /\ now - t0 >= BUF_WINDOW_S
    /\ now - first_window_start.val < BUF_WINDOW_S
    /\ now - first_window_start.val > 0
    /\ pubTimes = <<>>

\* C14: any two consecutive publishes are at least 10 s apart on the
\* Publisher's clock.
C14_PublishesTenApart ==
    \A i \in 1..(Len(pubTimes) - 1) :
        pubTimes[i + 1] - pubTimes[i] >= BUF_WINDOW_S

\* Two publishes have happened, with a worker's entry replaced by None
\* between the first sample and the second publish.
C14_Witness ==
    /\ Len(pubTimes) >= 2
    /\ budget = 0

\* The time of the tick at which the next publish is owed: 10 s after the
\* first sample, then 10 s after the last publish.
NextPublishAt ==
    IF pubTimes = <<>> THEN first_window_start.val + BUF_WINDOW_S
    ELSE pubTimes[Len(pubTimes)] + BUF_WINDOW_S

\* C15: once a metric has its first sample, and with no shutdown, the
\* Publisher leaves warm-up at the first tick at which 10 s have passed since
\* that sample and then publishes once per 10 s window: every publish is
\* exactly at the tick it is owed, and every publish owed within the run
\* happens.
C15_PublishCycleLive ==
    /\ [](\A i \in 1..Len(pubTimes) :
            pubTimes[i] = first_window_start.val + i * BUF_WINDOW_S)
    /\ \A k \in 0..(MaxClock \div BUF_WINDOW_S) :
          (/\ first_window_start # None
           /\ ~stop_event
           /\ Len(pubTimes) = k
           /\ NextPublishAt < MaxClock)
          ~> (Len(pubTimes) > k)

\* The first sample came after the start and two publishes followed it.
C15_Witness ==
    /\ Len(pubTimes) >= 2
    /\ first_window_start.val > 0
    /\ pubTimes[2] = first_window_start.val + 2 * BUF_WINDOW_S

\* C16: the publish cycle goes from warm-up to steady state only:
\* first_window_start, once set, is never cleared or changed, and after a
\* publish it stays set, whether or not any sensor still delivers.
C16_WarmupOnlyOnce ==
    [][/\ first_window_start # None =>
            first_window_start' = first_window_start
       /\ pubTimes # <<>> =>
            (first_window_start # None /\ first_window_start' # None)]_vars

\* After a publish every window has run empty, and the Publisher has just
\* published again.
C16_Witness ==
    /\ Len(pubTimes) >= 2
    /\ pubTimes[Len(pubTimes)] = now
    /\ buf = EmptyBuf
    /\ first_window_start # None

\* The Publisher has just published: buf is the window the last payload was
\* built from.
JustPublished == pubTimes # <<>> /\ pubTimes[Len(pubTimes)] = now

\* C17: at every publish, a metric whose window holds fewer samples than its
\* minimum (2 per slot, 2 for co2, 5 for pm25, 2 for pressure) is published
\* as the filler 0, never as a number computed from that window.
C17_UnderfilledIsFiller ==
    JustPublished =>
        LET d == published[Len(published)].data
        IN  /\ \A i \in Slots :
                  /\ Len(buf.temp_slots[i]) < 2 => d.temperature[i + 1] = 0
                  /\ Len(buf.rh_slots[i]) < 2 => d.humidity[i + 1] = 0
            /\ Len(buf.co2) < 2 => d.co2[1] = 0
            /\ Len(buf.pm25) < 5 => d.pm25[1] = 0
            /\ Len(buf.bme_pres) < 2 => d.pressure[1] = 0

\* A publish whose pm25 window holds 4 samples and whose co2 window is full.
C17_Witness ==
    /\ JustPublished
    /\ Len(buf.pm25) = 4
    /\ published[Len(published)].data.pm25[1] = 0
    /\ published[Len(published)].data.co2[1] > 0

\* The aggregation functions have returned.
Aggregated == pc["PUBLISHER"] = "aggregated"

\* The k-th smallest element of vs, by counting.
Kth(vs, k) ==
    CHOOSE x \in {vs[i] : i \in 1..Len(vs)} :
        /\ Cardinality({i \in 1..Len(vs) : vs[i] < x}) < k
        /\ Cardinality({i \in 1..Len(vs) : vs[i] <= x}) >= k

\* The sum of the lo-th to the hi-th smallest elements of vs.
RECURSIVE SumKth(_, _, _)
SumKth(vs, lo, hi) ==
    IF lo > hi THEN 0 ELSE Kth(vs, lo) + SumKth(vs, lo + 1, hi)

\* C18: _trimmed_mean_safe drops the k = floor(n * 0.10) lowest and the k
\* highest of n >= 5 values and returns the mean of the rest: the plain mean
\* for n = 5, the mean without the single lowest and the single highest for
\* n = 10; below 5 values it returns the plain mean.
C18_TrimmedMean ==
    (Aggregated /\ given # <<>>) =>
        LET n == Len(given)
            k == IF n >= 5 THEN n \div 10 ELSE 0
        IN  /\ aggr.trimmed =
                  Some(RoundHalfEven(SumKth(given, k + 1, n - k), n - 2 * k))
            /\ n <= 5 => aggr.trimmed = aggr.mean
            /\ n = 10 => aggr.trimmed =
                  Some(RoundHalfEven(Sum(given) - Kth(given, 1) - Kth(given, n),
                                     n - 2))

\* Ten values, not in order, whose trimmed mean is not their mean.
C18_Witness ==
    /\ Aggregated
    /\ Len(given) = 10
    /\ given[1] > given[2]
    /\ aggr.trimmed # aggr.mean

\* C19: _median_safe returns the middle element of the sorted values for an
\* odd count and the mean of the two central elements for an even count,
\* whatever the order of the list: 420 for 400, 420, 440 and 430 for
\* 400, 420, 440, 460.
C19_Median ==
    (Aggregated /\ given # <<>>) =>
        LET n == Len(given)
            elems == {given[i] : i \in 1..n}
        IN  /\ n % 2 = 1 =>
                  aggr.median = Some(100 * Kth(given, (n + 1) \div 2))
            /\ n % 2 = 0 =>
                  aggr.median = Some(50 * (Kth(given, n \div 2)
                                            + Kth(given, n \div 2 + 1)))
            /\ (n = 3 /\ elems = {400, 420, 440}) =>
                  aggr.median = Some(42000)
            /\ (n = 4 /\ elems = {400, 420, 440, 460}) =>
                  aggr.median = Some(43000)

\* 440, 400, 460, 420 in that order: the median is 430.
C19_Witness ==
    /\ Aggregated
    /\ given = <<440, 400, 460, 420>>
    /\ aggr.median = Some(43000)

\* C20: the zones are aggregated independently: slot i of the payload is the
\* mean of the window of zone i when it holds at least 2 samples and 0.0
\* otherwise; the windows [20.0, 21.0], [], [19.5, 19.7], [] give
\* [20.5, 0.0, 19.6, 0.0].
C20_ZonesIndependent ==
    Aggregated =>
        LET d == published[1].data
            w(i) == Vals(buf.temp_slots[i])
            h(i) == Vals(buf.rh_slots[i])
        IN  /\ \A i \in Slots :
                  /\ d.temperature[i + 1] =
                        IF Len(w(i)) >= 2
                          THEN RoundHalfEven(Sum(w(i)), Len(w(i))) ELSE 0
                  /\ d.humidity[i + 1] =
                        IF Len(h(i)) >= 2
                          THEN RoundHalfEven(Sum(h(i)), Len(h(i))) ELSE 0
            /\ (/\ w(0) = <<2000, 2100>> /\ w(1) = <<>>
                /\ w(2) = <<1950, 1970>> /\ w(3) = <<>>)
                  => d.temperature = <<2050, 0, 1960, 0>>

\* The payload of the windows [20.0, 21.0], [], [19.5, 19.7], [].
C20_Witness ==
    /\ Aggregated
    /\ Vals(buf.temp_slots[0]) = <<2000, 2100>>
    /\ Vals(buf.temp_slots[1]) = <<>>
    /\ Vals(buf.temp_slots[2]) = <<1950, 1970>>
    /\ Vals(buf.temp_slots[3]) = <<>>
    /\ published[1].data.temperature = <<2050, 0, 1960, 0>>

\* C21: every published payload is hvac_id = 1 plus exactly the five
\* metrics temperature, humidity, co2, pm25 and pressure, each an array of
\* exactly 4 numbers; places 1..3 of co2, pm25 and pressure are the filler 0,
\* co2 and pm25 hold whole numbers, and an aggregate that is not available is
\* 0, never None.
C21_PayloadShape ==
    \A j \in 1..Len(published) :
        LET p == published[j]
            d == p.data
        IN  /\ DOMAIN p = {"hvac_id", "data"}
            /\ p.hvac_id = 1
            /\ DOMAIN d = {"temperature", "humidity", "co2", "pm25", "pressure"}
            /\ \A k \in DOMAIN d :
                  /\ DOMAIN d[k] = 1..4
                  /\ \A i \in 1..4 : d[k][i] \in Nat
            /\ \A i \in 2..4 :
                  d.co2[i] = 0 /\ d.pm25[i] = 0 /\ d.pressure[i] = 0
            /\ d.co2[1] \in {0} \cup {FrameRead(k).co2 : k \in Samples}

\* A payload with a co2 value and the filler for pm25, whose window is
\* under-filled.
C21_Witness ==
    /\ JustPublished
    /\ published[Len(published)].data.co2[1] > 0
    /\ Len(buf.pm25) \in 1..4
    /\ published[Len(published)].data.pm25[1] = 0

\* C22: aggregates are not carried over between publish cycles: the payload
\* of a publish is the aggregation of the Window Buffer of that tick, so a
\* metric with a value in the previous payload and an under-filled window now
\* is published as filler.
C22_NoCarryOver ==
    JustPublished =>
        LET d == published[Len(published)].data
        IN  /\ published[Len(published)] = Payload(buf)
            /\ Len(buf.pm25) < 5 => d.pm25 = <<0, 0, 0, 0>>
            /\ Len(buf.bme_pres) < 2 => d.pressure = <<0, 0, 0, 0>>
            /\ Len(buf.co2) < 2 => d.co2 = <<0, 0, 0, 0>>

\* The previous payload carried a pm25 value; the window now holds samples
\* but too few, and this payload carries the filler.
C22_Witness ==
    /\ JustPublished
    /\ Len(published) >= 2
    /\ published[Len(published) - 1].data.pm25[1] > 0
    /\ Len(buf.pm25) \in 1..4
    /\ published[Len(published)].data.pm25[1] = 0

\* C23: in a publish, a publish call that raises does not keep the other
\* destinations from being attempted and does not end the cycle: every
\* destination is attempted exactly once, in order, the Publisher goes on to
\* its next tick, and the publish timer was restarted.
C23_EveryDestinationAttempted ==
    /\ pc["PUBLISHER"] \in {"snap_state", "send"}
    /\ pc["PUBLISHER"] = "send" =>
          /\ topic_i \in 1..Len(TOPICS_PUB)
          /\ Len(attempts) = topic_i - 1
          /\ t0 = now /\ JustPublished
    /\ (pc["PUBLISHER"] = "snap_state" /\ pubTimes # <<>>) =>
          /\ Len(attempts) = Len(TOPICS_PUB)
          /\ t0 = pubTimes[Len(pubTimes)]
    /\ \A i \in 1..Len(attempts) : attempts[i].topic = TOPICS_PUB[i]

\* The first publish call of the second publish raised, the second call was
\* made, and the Publisher has gone on ticking.
C23_Witness ==
    /\ Len(pubTimes) = 2
    /\ pc["PUBLISHER"] = "snap_state"
    /\ now > pubTimes[2]
    /\ Len(attempts) = 2
    /\ ~attempts[1].ok /\ attempts[2].ok

\* Worker t leaves statement l, the store that follows a read that raised.
FailedStore(t, l) == pc[t] = l /\ res[t] = Raised /\ pc'[t] # l

\* Worker t leaves statement l, the store that follows a read that returned.
GoodStore(t, l) == pc[t] = l /\ res[t] # Raised /\ pc'[t] # l

\* C24: a failed read of one identifier changes that identifier's entry of
\* latest and no other, and the worker goes on with the remaining reads of
\* its iteration (the SHTC3 channels after a failed SHT41 or a failed
\* channel, the GP2Y after a failed BME280); the store of a read that
\* returned installs its entry whatever failed elsewhere.
C24_FailureTouchesOneEntry ==
    [][/\ FailedStore("MUX_SHTS", "sht41_store") =>
            /\ latest' = [latest EXCEPT !.sht41 = None]
            /\ pc'["MUX_SHTS"] = "shtc3_lock" /\ ch_i' = 1
       /\ FailedStore("MUX_SHTS", "shtc3_store") =>
            /\ latest' = [latest EXCEPT !.shtc3[TARGET_CHANNELS[ch_i]] = None]
            /\ IF ch_i < Len(TARGET_CHANNELS)
                  THEN pc'["MUX_SHTS"] = "shtc3_lock" /\ ch_i' = ch_i + 1
                  ELSE pc'["MUX_SHTS"] = "sleep"
       /\ FailedStore("BME_GP2Y", "bme_store") =>
            /\ latest' = [latest EXCEPT !.bme280 = None]
            /\ pc'["BME_GP2Y"] = "gp2y_lock"
       /\ FailedStore("BME_GP2Y", "gp2y_store") =>
            latest' = [latest EXCEPT !.gp2y = None]
       /\ FailedStore("MHZ19B", "mhz_store") =>
            latest' = [latest EXCEPT !.mhz19b = None]
       /\ GoodStore("MUX_SHTS", "sht41_store") =>
            latest'.sht41 = [temp_c |-> res["MUX_SHTS"].t,
                             rh |-> res["MUX_SHTS"].h]
       /\ GoodStore("MUX_SHTS", "shtc3_store") =>
            latest'.shtc3[TARGET_CHANNELS[ch_i]] =
                [temp_c |-> res["MUX_SHTS"].t, rh |-> res["MUX_SHTS"].h]
       /\ GoodStore("BME_GP2Y", "bme_store") => latest'.bme280 # None
       /\ GoodStore("BME_GP2Y", "gp2y_store") => latest'.gp2y # None
      ]_vars

\* The SHT41 read failed and its entry was cleared; worker A is at the bus
\* for an SHTC3 channel, and the BME280 entry that worker B installed stands.
C24_Witness ==
    /\ attempt.sht41 = "failed"
    /\ latest.sht41 = None
    /\ pc["MUX_SHTS"] = "shtc3_bus"
    /\ latest.bme280 # None

\* C25: shutdown ends every loop at its loop test: when the process has
\* ended after a shutdown, no worker was cut off in the middle of a bus
\* transaction.
C25_NoAbortMidTransaction ==
    pc["MAIN"] = "exit" =>
        \A t \in Workers :
            pc[t] \notin {"sht41_bus", "shtc3_bus", "bme_bus", "gp2y_bus"}

\* The entries that hold the fields of one read, reading k.
ShtWhole(k) == [temp_c |-> ShtRead(k).t, rh |-> ShtRead(k).h]
BmeWhole(k) ==
    [temp_c |-> RoundHalfEven(BmeRaw(k).temp, 10),
     rh |-> RoundHalfEven(BmeRaw(k).hum, 10),
     press_hpa |-> RoundHalfEven(BmeRaw(k).pres, 10),
     alt_m |-> RoundHalfEven(BmeRaw(k).alt, 10)]
Gp2yWhole(k) ==
    [vout |-> RoundHalfEven(DustRead(k).vout, 10),
     pm_ugm3 |-> 10 * RoundHalfEven(DustRead(k).ug, 100)]

Steps(t) == pc'[t] # pc[t] \/ (t = "PUBLISHER" /\ s3_i' # s3_i)

\* C27: every identifier of latest has one writer: a step changes the sht41
\* entry or an shtc3 entry only if it is worker A's store of it, the bme280
\* or the gp2y entry only if it is worker B's, the mhz19b entry only if it is
\* worker C's; no step of the Publisher changes latest.
C27_OneWriter ==
    [][/\ latest'.sht41 # latest.sht41 =>
            pc["MUX_SHTS"] = "sht41_store" /\ Steps("MUX_SHTS")
       /\ latest'.shtc3 # latest.shtc3 =>
            pc["MUX_SHTS"] = "shtc3_store" /\ Steps("MUX_SHTS")
       /\ latest'.bme280 # latest.bme280 =>
            pc["BME_GP2Y"] = "bme_store" /\ Steps("BME_GP2Y")
       /\ latest'.gp2y # latest.gp2y =>
            pc["BME_GP2Y"] = "gp2y_store" /\ Steps("BME_GP2Y")
       /\ latest'.mhz19b # latest.mhz19b =>
            pc["MHZ19B"] = "mhz_store" /\ Steps("MHZ19B")
       /\ latest'.timestamp = latest.timestamp
       /\ (Steps("PUBLISHER") \/ Steps("MAIN")) => latest' = latest
      ]_vars

\* Each worker has installed an entry and the Publisher has gone through a
\* tick.
C27_Witness ==
    /\ latest.sht41 # None /\ latest.gp2y # None /\ latest.mhz19b # None
    /\ pc["PUBLISHER"] = "sleep"

C29_PushAppendsOne ==
    [][pushed' # pushed =>
         LET c == pushed'[Len(pushed')]
             pair == [ts |-> c.ts, v |-> c.val.val]
         IN  IF c.val = None THEN buf' = buf
             ELSE /\ \A k \in PlainKeys :
                       buf'[k] = IF k = c.key THEN Append(buf[k], pair)
                                 ELSE buf[k]
                  /\ \A k \in SlotKeys, i \in Slots :
                       buf'[k][i] =
                         IF k = c.key /\ c.slot = Some(i)
                           THEN Append(buf[k][i], pair) ELSE buf[k][i]
                  /\ DOMAIN buf' = DOMAIN buf
      ]_vars

\* Three calls: two appended to the co2 sequence, the later one last, and
\* one with None for slot 2 of temp_slots changed nothing.
C29_Witness ==
    /\ Len(pushed) = 3
    /\ pushed[1].key = "co2" /\ pushed[1].ts = 2 /\ pushed[1].val # None
    /\ pushed[2].key = "temp_slots" /\ pushed[2].slot = Some(2)
    /\ pushed[2].val = None
    /\ pushed[3].key = "co2" /\ pushed[3].ts = 1 /\ pushed[3].val # None
    /\ buf.co2 = <<[ts |-> 2, v |-> 1], [ts |-> 1, v |-> 1]>>
    /\ buf.temp_slots[2] = <<>>

\* The sequences of the Window Buffer.
Windows ==
    {buf[k] : k \in PlainKeys} \cup {buf[k][i] : k \in SlotKeys, i \in Slots}

\* C30: in the running Publisher every sequence of the Window Buffer is in
\* the order of its timestamps, and after the prune of a tick none holds an
\* entry older than now - 10 s.
C30_WindowsOrderedAndPruned ==
    \A w \in Windows :
        /\ \A i \in 1..Len(w), j \in 1..Len(w) : i < j => w[i].ts <= w[j].ts
        /\ \A i \in 1..Len(w) : w[i].ts >= now - BUF_WINDOW_S

\* After a tick that pruned, the co2 window holds the 11 samples of
\* now - 10 .. now and the pm25 window, which began later, fewer.
C30_Witness ==
    /\ now > BUF_WINDOW_S
    /\ Len(buf.co2) = BUF_WINDOW_S + 1
    /\ buf.co2[1].ts = now - BUF_WINDOW_S
    /\ buf.co2[Len(buf.co2)].ts = now
    /\ Len(buf.pm25) \in 1..BUF_WINDOW_S

\* C31: wait_for_sensor_response ends for every behaviour of the sensor.  It
\* returns the first valid frame, or None and then only after more than the
\* timeout has gone by; init then returns the port, with last_valid_result
\* set exactly when a valid first response came.
C31_WaitTerminates ==
    /\ <>(pc["MHZ19B"] \in {"init_done", "init_raised"})
    /\ [](pc["MHZ19B"] \in {"init_ret", "init_done"} =>
            IF res["MHZ19B"] = None
               THEN wall - start_time > WAIT_TIMEOUT
               ELSE res["MHZ19B"] = last_good)
    /\ [](pc["MHZ19B"] = "init_done" =>
            /\ ser = Handle("serial0")
            /\ last_valid_result = res["MHZ19B"])

\* init has returned without a valid frame after a wait of more than the
\* timeout.
C31_Witness ==
    /\ pc["MHZ19B"] = "init_done"
    /\ res["MHZ19B"] = None
    /\ last_valid_result = None
    /\ wall - start_time > WAIT_TIMEOUT

\* C32: the shared SMBus handle is never closed while worker A is between
\* acquiring and releasing i2c_lock.
C32_NoCloseInTransaction ==
    smbus = "closed" => i2c_lock # "MUX_SHTS"

\* C33: two runs that differ only in the SHT41 reading and in the BME280
\* temperature and humidity publish the same payloads.  In any two runs with
\* the same schedule, slot i of temperature and humidity is the same when the
\* SHTC3 channel of zone i read the same, co2 when the MH-Z19B did, pm25 when
\* the GP2Y did, pressure when the BME280 pressure was the same.
C33_PayloadIndependent ==
    /\ Len(run2.published) = Len(published)
    /\ run2.differs \subseteq {Src("sht41", 0), Src("bme280_th", 0)}
          => run2.published = published
    /\ \A j \in 1..Len(published) :
          LET p == published[j].data
              q == run2.published[j].data
          IN  /\ \A i \in 1..Len(ChToSlot) :
                    Src("shtc3", ChToSlot[i].ch) \notin run2.differs
                      => /\ p.temperature[ChToSlot[i].slot + 1]
                              = q.temperature[ChToSlot[i].slot + 1]
                         /\ p.humidity[ChToSlot[i].slot + 1]
                              = q.humidity[ChToSlot[i].slot + 1]
              /\ Src("mhz19b", 0) \notin run2.differs => p.co2 = q.co2
              /\ Src("gp2y", 0) \notin run2.differs => p.pm25 = q.pm25
              /\ Src("bme280_pres", 0) \notin run2.differs
                    => p.pressure = q.pressure

\* Both runs have published a payload with a measured pressure while their
\* BME280 temperature windows differ.
C33_Witness ==
    /\ Len(published) >= 1
    /\ run2.published = published
    /\ published[Len(published)].data.pressure[1] > 0
    /\ Src("bme280_th", 0) \in run2.differs
    /\ run2.buf.bme_temp # buf.bme_temp

\* C34: in steady state the Publisher publishes every 10 s whatever the
\* windows hold, and a publish at which every window is empty or under-filled
\* carries 0 in each of its 20 slots.
C34_FillersOnSchedule ==
    /\ pubTimes # <<>> => now - pubTimes[Len(pubTimes)] < BUF_WINDOW_S
    /\ (/\ JustPublished
        /\ \A i \in Slots : /\ Len(buf.temp_slots[i]) < MIN_REQUIRED.slot
                             /\ Len(buf.rh_slots[i]) < MIN_REQUIRED.slot
        /\ Len(buf.co2) < MIN_REQUIRED.co2
        /\ Len(buf.pm25) < MIN_REQUIRED.pm25
        /\ Len(buf.bme_pres) < MIN_REQUIRED.pres)
       => \A k \in DOMAIN published[Len(published)].data :
             published[Len(published)].data[k] = <<0, 0, 0, 0>>

\* The second publish came 10 s after the first with particulate samples in
\* the window, but fewer than five: it carries fillers only.
C34_Witness ==
    /\ JustPublished
    /\ Len(pubTimes) = 2
    /\ pubTimes[2] = pubTimes[1] + BUF_WINDOW_S
    /\ Len(buf.pm25) \in 1..(MIN_REQUIRED.pm25 - 1)
    /\ \A k \in DOMAIN published[2].data : published[2].data[k] = <<0, 0, 0, 0>>

\* C35: a tick appends at most one entry to a window sequence, stamped with
\* the tick's time, and prunes: in every window the timestamps grow strictly
\* and none is later than the last tick, and with ticks 1 s apart no window
\* holds more than 11 entries.
C35_WindowsBounded ==
    \A w \in Windows :
        /\ Len(w) <= BUF_WINDOW_S + 1
        /\ \A i \in 1..Len(w) : w[i].ts <= now
        /\ \A i \in 1..(Len(w) - 1) : w[i].ts < w[i + 1].ts

\* The temperature window of zone 0 holds 11 entries, one per tick, after
\* older ones have been pruned.
C35_Witness ==
    /\ now > BUF_WINDOW_S + 1
    /\ Len(buf.temp_slots[0]) = BUF_WINDOW_S + 1
    /\ \A i \in 1..(BUF_WINDOW_S + 1) :
          buf.temp_slots[0][i].ts = now - BUF_WINDOW_S - 1 + i

\* C36: read_single_sensor sends reset, wake, the ID request, measure, sleep
\* in this order, returns a reading only if the ID answer and both
\* measurement CRCs validated, and has sent sleep to a sensor it woke on
\* every exit, by return or by raise.
C36_SleepOnEveryExit ==
    pc["MUX_SHTS"] = "rs_exit" =>
        /\ \A i \in 1..Len(cmds) :
              cmds[i].cmd = <<"reset", "wake", "id", "measure", "sleep">>[i]
        /\ res["MUX_SHTS"] # Raised =>
              /\ Len(cmds) = 5
              /\ \A i \in 1..Len(cmds) : cmds[i].ok
        /\ (\E i \in 1..Len(cmds) : cmds[i].cmd = "wake") =>
              cmds[Len(cmds)].cmd = "sleep"

\* C37: for every count n >= 5 the trimmed window keeps n - 2*floor(n*0.10)
\* >= 1 samples, and the Publisher hands _trimmed_mean_safe at least 5
\* samples: neither its fewer-than-5 return nor its nothing-left return is
\* ever taken for the particulate aggregate.
C37_NoTrimFallback ==
    /\ \A n \in MIN_SAMPLES_FOR_TRIM..(10 * MaxTrimLen) :
          n - 2 * ((n * TRIM_FRAC) \div 100) >= 1
    /\ Len(buf.pm25) >= MIN_REQUIRED.pm25
          => TrimBranch(Vals(buf.pm25)) \in {"k0", "trimmed"}

\* A publish whose particulate window holds 11 samples: one is dropped at
\* each end and nine are left.
C37_Witness ==
    /\ JustPublished
    /\ Len(buf.pm25) = BUF_WINDOW_S + 1
    /\ TrimBranch(Vals(buf.pm25)) = "trimmed"
    /\ published[Len(published)].data.pm25[1] > 0

====
